---- MODULE Spec2Model ----
(***************************************************************************)
(* Model of the acquisition-and-delivery pipeline of tiktokrustbot:        *)
(* handlers/link.rs (link_handler, TempFile), the upload semaphore of      *)
(* main.rs, and the pieces of utils/progress_bar.rs that link_handler      *)
(* relies on.  Each Task is one invocation of link_handler on a message    *)
(* whose text contains "tiktok.com".                                       *)
(*                                                                         *)
(* Time: tokio Instants are kept as ages (whole seconds elapsed since the  *)
(* instant was taken), saturated at AgeCap; the code only ever compares an *)
(* elapsed time with the 2-second interval, so ages >= AgeCap behave alike.*)
(* Two specifications share the actions.  SpecRate keeps the clock (timed  *)
(* = TRUE): Tick ages the instants and the limiter reads them.  Spec       *)
(* abstracts the clock (timed = FALSE): an elapsed time read by the        *)
(* limiter may be any value, a sleep ends at any moment, and more Tasks    *)
(* run at once.                                                            *)
(*                                                                         *)
(* Two further specifications look at one phase of one Task in detail:     *)
(* SpecDownload runs the download retry loop of link.rs 166-236 over the   *)
(* yt-dlp process of yt_dlp_interface/fetcher.rs; SpecUpload runs the      *)
(* upload of link.rs 250-359, with with_reconnect_retry of                 *)
(* mtproto_uploader/uploader.rs for the persistent transport.              *)
(***************************************************************************)
EXTENDS Integers, FiniteSets, Sequences, TLC

\* ---------------------------------------------------------------- bounds
NumTasks == 3
RateTasks == 2

Tasks == 1..NumTasks
Chats == {101, 202}

\* The inbound messages: Tasks 1 and 2 serve one recipient, the others a
\* second one; a message carries either a link that all recipients may send
\* or a link that only this message carries.
TaskChat(t) == IF t <= 2 THEN 101 ELSE 202
CommonLink == <<"https://tiktok.com/v", 0>>
OwnLink(t) == <<"https://tiktok.com/v", t>>
TaskLinks(t) == IF t = 1 THEN {CommonLink} ELSE {CommonLink, OwnLink(t)}

\* ------------------------------------------------------ program constants
RATE_LIMIT_SECS == 2
UPLOAD_PERMITS == 2
MAX_ATTEMPTS == 3
TELEGRAM_BOT_API_FILE_LIMIT == 48 * 1024 * 1024

AgeCap == RATE_LIMIT_SECS

\* file sizes around the transport threshold
Sizes == {TELEGRAM_BOT_API_FILE_LIMIT - 1, TELEGRAM_BOT_API_FILE_LIMIT,
          TELEGRAM_BOT_API_FILE_LIMIT + 1}

VARIABLES
    timed,      \* TRUE: the clock is kept; FALSE: elapsed times are arbitrary
    pc,         \* pc[t]: position of Task t inside link_handler
    link,       \* link[t]: msg.text() of the message Task t handles
    chat,       \* chat[t]: msg.chat.id of that message
    urls,       \* URL_PROCESSING: the in-flight set of Dedup Keys
    lastSend,   \* LAST_SEND: chat -> age of the recorded Instant
    rlLock,     \* holder of the LAST_SEND mutex (0: free)
    sleepLeft,  \* sleepLeft[t]: seconds left of a rate-limit sleep
    permits,    \* available permits of upload_semaphore
    msgId,      \* msgId[t]: progress_bar.inner.message_id ("none"/"some")
    file,       \* file[t]: the downloaded local file ("none"/"present"/"removed")
    fileSize,   \* fileSize[t]: fs::metadata(&path)?.len()
    guard,      \* guard[t]: TRUE once _temp_file_guard exists
    retries,    \* retries[t]: the retry counter of the running loop
    result,     \* result[t]: how link_handler returned
    events,     \* events[t]: what Task t did, in order, kept until it returns
    minGap,     \* minGap[c]: least gap between consecutive LAST_SEND entries of c
    dedupAt,    \* chat -> age of the instant a Task of the chat last passed dedup
    dlAt,       \* chat -> age of the instant a Task of the chat last began to download
    near,       \* near[c]: two Tasks of c passed dedup less than 2 s apart
    dlClose,    \* dlClose[c]: two Tasks of c began to download less than 2 s apart
    \* --- one download phase in detail (fetcher.rs, link.rs 166-236)
    dlPc,       \* position inside the download retry loop
    dlRetries,  \* retries of link.rs 167
    dlStderr,   \* what the yt-dlp process writes to stderr when it fails
    dlOutcome,  \* how the running attempt's process behaves
    childErr,   \* stderr lines the process has still to write
    stderrPipe, \* lines written to the stderr pipe and not read yet
    stderrTaken,\* TRUE once child.stderr.take() moved the handle out of child
    dlErr,      \* e.to_string() of the last failed attempt, as a list of pieces
    dlNotice,   \* error_message sent after the last attempt
    dlAttempts, \* attempts started
    dlHistory,  \* how each finished attempt ended
    dlPauses,   \* the delays slept between attempts, in milliseconds
    \* --- one upload phase in detail (uploader.rs 133-168, link.rs 250-359)
    upPc,       \* position inside the upload
    upTransport,\* "persistent" (MTProto) or "direct" (Bot API)
    attempt,    \* attempt of with_reconnect_retry
    upRetries,  \* retries of link.rs 302
    lastErr,    \* e of the failed attempt with_reconnect_retry is handling
    client,     \* how often the connection slot *client_guard was replaced
    reconnects, \* the results of the reconnect_client calls, in order
    upHistory,  \* the result of each invocation of the operation, in order
    upPauses,   \* the delays slept between attempts, in milliseconds
    upErr,      \* the error the upload ended with (<<>>: it ended with Ok)
    upNotice,   \* the message link_handler sent about the upload
    \* --- further objects, each kept as one record
    conn,       \* the connection slot Arc<Mutex<Client>> and the tasks using it
    bar,        \* one ProgressBar (ProgressBarInner) and what it rendered
    fwd,        \* the progress forwarding of one download attempt (fetcher.rs)
    peer,       \* one call of resolve_peer (peers.rs)
    disp,       \* the endpoint of link messages and its spawned Tasks (main.rs)
    dlg         \* the broadcast dialogue of each chat (broadcast.rs)

inputs == <<timed, link, chat>>
limiter == <<lastSend, rlLock, sleepLeft, minGap>>
locals == <<msgId, file, fileSize, guard, retries>>
dedupGhost == <<dedupAt, near>>
dlGhost == <<dlAt, dlClose>>

pipeline == <<timed, pc, link, chat, urls, lastSend, rlLock, sleepLeft, permits,
              msgId, file, fileSize, guard, retries, result, events, minGap,
              dedupAt, dlAt, near, dlClose>>
download == <<dlPc, dlRetries, dlStderr, dlOutcome, childErr, stderrPipe,
              stderrTaken, dlErr, dlNotice, dlAttempts, dlHistory,
              dlPauses>>
upload == <<upPc, upTransport, attempt, upRetries, lastErr, client, reconnects,
            upHistory, upPauses, upErr, upNotice>>
more == <<conn, bar, fwd, peer, disp, dlg>>
others == <<download, upload, more>>

vars == <<pipeline, others>>

\* ---------------------------------------------------------------- helpers
Min(a, b) == IF a < b THEN a ELSE b
Max(a, b) == IF a > b THEN a ELSE b

Put(f, k, v) == [x \in DOMAIN f \cup {k} |-> IF x = k THEN v ELSE f[x]]
Aged(f) == [x \in DOMAIN f |-> Min(f[x] + 1, AgeCap)]

Has(seq, e) == \E i \in 1..Len(seq) : seq[i] = e
Count(seq, e) == Cardinality({i \in 1..Len(seq) : seq[i] = e})
Ev(t, es) == [events EXCEPT ![t] = @ \o es]

\* what is kept of a Task's history once link_handler has returned
Kept(e) == e \in {"claim", "key_remove", "permit", "msg_delete", "log",
                  "log_failed"}

\* the membership test forgotten
NeverProcessing(set, url) == FALSE

\* urls.contains(&url)
AlreadyProcessing(set, url) == url \in set

\* urls.insert(url.clone())
InsertUrl(set, url) == set \cup {url}

\* the key left in the set
RemoveNothing(set, url) == set

\* urls.remove(&url)
RemoveUrl(set, url) == set \ {url}

\* the interval compared one second short
MustWaitShort(elapsed) == elapsed < RATE_LIMIT_SECS - 1

\* elapsed < Duration::from_secs(2)
MustWait(elapsed) == elapsed < RATE_LIMIT_SECS

\* no time left to wait
WaitNothing(elapsed) == 0

\* wait_time = Duration::from_secs(2) - elapsed
WaitTime(elapsed) == RATE_LIMIT_SECS - elapsed

\* acquire that never suspends
PermitAlways(p) == TRUE

\* Semaphore::acquire completes only when a permit is available
PermitAvailable(p) == p > 0

\* a permit that is forgotten instead of dropped
ReleaseNothing(p) == p

\* drop of the SemaphorePermit
ReleasePermit(p) == p + 1

\* the threshold compared with >=
UseMTProtoAtLimit(size) == size >= TELEGRAM_BOT_API_FILE_LIMIT

\* file_size > TELEGRAM_BOT_API_FILE_LIMIT
UseMTProto(size) == size > TELEGRAM_BOT_API_FILE_LIMIT

\* retries >= 3
Exhausted(r) == r >= MAX_ATTEMPTS

\* send_video_with_progress_botapi / send_audio_with_progress_botapi on
\* success: "Progress bar already handled by send functions"
BotApiSendProgress(m) == "none"

\* ------------------------------------------------------------------- Init
Common ==
    /\ link = [t \in Tasks |-> <<>>]
    /\ chat = [t \in Tasks |-> 0]
    /\ urls = {}
    /\ lastSend = <<>>
    /\ rlLock = 0
    /\ sleepLeft = [t \in Tasks |-> 0]
    /\ permits = UPLOAD_PERMITS
    /\ msgId = [t \in Tasks |-> "none"]
    /\ file = [t \in Tasks |-> "none"]
    /\ fileSize = [t \in Tasks |-> 0]
    /\ guard = [t \in Tasks |-> FALSE]
    /\ retries = [t \in Tasks |-> 0]
    /\ result = [t \in Tasks |-> "none"]
    /\ events = [t \in Tasks |-> <<>>]
    /\ minGap = [c \in Chats |-> AgeCap]
    /\ dedupAt = <<>>
    /\ dlAt = <<>>
    /\ near = [c \in Chats |-> FALSE]
    /\ dlClose = [c \in Chats |-> FALSE]

\* the detailed download phase is not running
DownloadOff ==
    /\ dlPc = "off"
    /\ dlRetries = 0
    /\ dlStderr = "none"
    /\ dlOutcome = "none"
    /\ childErr = <<>>
    /\ stderrPipe = <<>>
    /\ stderrTaken = FALSE
    /\ dlErr = <<>>
    /\ dlNotice = "none"
    /\ dlAttempts = 0
    /\ dlHistory = <<>>
    /\ dlPauses = <<>>

\* the detailed upload phase is not running
UploadOff ==
    /\ upPc = "off"
    /\ upTransport = "none"
    /\ attempt = 0
    /\ upRetries = 0
    /\ lastErr = <<>>
    /\ client = 0
    /\ reconnects = <<>>
    /\ upHistory = <<>>
    /\ upPauses = <<>>
    /\ upErr = <<>>
    /\ upNotice = "none"

\* none of the further objects is in use
Off == [pc |-> "off"]
MoreOff ==
    /\ conn = Off
    /\ bar = Off
    /\ fwd = Off
    /\ peer = Off
    /\ disp = Off
    /\ dlg = Off

\* no message is being handled by the pipeline
PipelineOff ==
    /\ timed = FALSE
    /\ pc = [t \in Tasks |-> "off"]
    /\ Common

Init ==
    /\ timed = FALSE
    /\ pc = [t \in Tasks |-> "idle"]
    /\ Common
    /\ DownloadOff
    /\ UploadOff
    /\ MoreOff

\* the Tasks beyond RateTasks never receive a message
InitRate ==
    /\ timed = TRUE
    /\ pc = [t \in Tasks |-> IF t <= RateTasks THEN "idle" ELSE "off"]
    /\ Common
    /\ DownloadOff
    /\ UploadOff
    /\ MoreOff

\* ---------------------------------------------------------------- actions

\* link.rs 57-88: a message whose text contains "tiktok.com" arrives.
Submit(t) ==
    /\ pc[t] = "idle"
    /\ \E l \in TaskLinks(t) : link' = [link EXCEPT ![t] = l]
    /\ chat' = [chat EXCEPT ![t] = TaskChat(t)]
    /\ pc' = [pc EXCEPT ![t] = "dedup"]
    /\ UNCHANGED <<timed, urls, limiter, permits, locals, result, events,
                   dedupGhost, dlGhost>>
    /\ UNCHANGED others

\* link.rs 90-98: URL deduplication under the URL_PROCESSING mutex.
Dedup(t) ==
    /\ pc[t] = "dedup"
    /\ IF AlreadyProcessing(urls, link[t])
       THEN \E sent \in BOOLEAN :
            /\ pc' = [pc EXCEPT ![t] = "done"]
            /\ result' = [result EXCEPT ![t] = IF sent THEN "rejected" ELSE "error"]
            /\ events' = Ev(t, <<"reject">>)
            /\ UNCHANGED <<urls, dedupGhost>>
       ELSE /\ urls' = InsertUrl(urls, link[t])
            /\ pc' = [pc EXCEPT ![t] = "ratelimit"]
            /\ events' = Ev(t, <<"claim">>)
            /\ IF timed
               THEN /\ near' = [near EXCEPT ![chat[t]] =
                          @ \/ (chat[t] \in DOMAIN dedupAt
                                   /\ dedupAt[chat[t]] < RATE_LIMIT_SECS)]
                    /\ dedupAt' = Put(dedupAt, chat[t], 0)
               ELSE UNCHANGED dedupGhost
            /\ UNCHANGED result
    /\ UNCHANGED <<inputs, limiter, permits, locals, dlGhost>>
    /\ UNCHANGED others

\* LAST_SEND.insert(user_id, Instant::now()), with the bookkeeping of the gap
\* to the entry it replaces.
Stamp(c) ==
    /\ lastSend' = Put(lastSend, c, 0)
    /\ minGap' = IF timed /\ c \in DOMAIN lastSend
                 THEN [minGap EXCEPT ![c] = Min(@, lastSend[c])]
                 ELSE minGap

\* last_time.elapsed()
Elapsed(c) == IF timed THEN {lastSend[c]} ELSE 0..AgeCap

\* link.rs 100-112: rate limiting per chat, entered by locking LAST_SEND.
\* The guard of the mutex is held while sleeping.
RateLimit(t) ==
    /\ pc[t] = "ratelimit"
    /\ rlLock = 0
    /\ IF chat[t] \in DOMAIN lastSend
       THEN \E elapsed \in Elapsed(chat[t]) :
            IF MustWait(elapsed)
            THEN /\ sleepLeft' = [sleepLeft EXCEPT ![t] = WaitTime(elapsed)]
                 /\ rlLock' = t
                 /\ pc' = [pc EXCEPT ![t] = "rl_sleep"]
                 /\ UNCHANGED <<lastSend, minGap, events>>
            ELSE /\ Stamp(chat[t])
                 /\ pc' = [pc EXCEPT ![t] = "permit_wait"]
                 /\ events' = Ev(t, <<"rl_pass">>)
                 /\ UNCHANGED <<sleepLeft, rlLock>>
       ELSE /\ Stamp(chat[t])
            /\ pc' = [pc EXCEPT ![t] = "permit_wait"]
            /\ events' = Ev(t, <<"rl_pass">>)
            /\ UNCHANGED <<sleepLeft, rlLock>>
    /\ UNCHANGED <<inputs, urls, permits, locals, result, dedupGhost, dlGhost>>
    /\ UNCHANGED others

\* link.rs 108-111: the sleep is over; record the timestamp, drop the guard.
RateLimitWake(t) ==
    /\ pc[t] = "rl_sleep"
    /\ timed => sleepLeft[t] = 0
    /\ Stamp(chat[t])
    /\ sleepLeft' = [sleepLeft EXCEPT ![t] = 0]
    /\ rlLock' = 0
    /\ pc' = [pc EXCEPT ![t] = "permit_wait"]
    /\ events' = Ev(t, <<"rl_wait", "rl_pass">>)
    /\ UNCHANGED <<inputs, urls, permits, locals, result, dedupGhost, dlGhost>>
    /\ UNCHANGED others

\* link.rs 132-136: upload_semaphore.acquire().await
AcquirePermit(t) ==
    /\ pc[t] = "permit_wait"
    /\ PermitAvailable(permits)
    /\ permits' = permits - 1
    /\ pc' = [pc EXCEPT ![t] = "gate"]
    /\ events' = Ev(t, <<"permit">>)
    /\ UNCHANGED <<inputs, urls, limiter, locals, result, dedupGhost, dlGhost>>
    /\ UNCHANGED others

\* what the read of the setting 'subscription_required' can come to: a row
\* holding "true", a row holding anything else, no row, a failed query, and
\* execute_with_timeout returning Err
Settings == {"true", "false", "no_row", "query_error", "timeout"}

\* link.rs 34-46 and 138: a failed query_row is Ok(true) inside the closure,
\* and an Err of execute_with_timeout is true by unwrap_or(true)
SubscriptionRequired(setting) ==
    CASE setting = "true" -> TRUE
      [] setting = "false" -> FALSE
      [] OTHER -> TRUE

\* the answers of check_subscription
Checks == {"member", "not_member", "error"}

\* link.rs 143: check_subscription(..).await.unwrap_or(false)
Subscribed(check) == check = "member"

\* link.rs 138-155: the subscription gate.
SubscriptionGate(t) ==
    /\ pc[t] = "gate"
    /\ \E setting \in Settings, admin \in BOOLEAN, check \in Checks,
          sent \in BOOLEAN :
        IF SubscriptionRequired(setting) /\ ~admin /\ ~Subscribed(check)
        THEN IF sent
             THEN /\ urls' = RemoveUrl(urls, link[t])
                  /\ events' = Ev(t, <<"gate_exit", "key_remove">>)
                  /\ pc' = [pc EXCEPT ![t] = "return"]
                  /\ result' = [result EXCEPT ![t] = "subscription"]
             ELSE /\ events' = Ev(t, <<"gate_exit">>)
                  /\ pc' = [pc EXCEPT ![t] = "return"]
                  /\ result' = [result EXCEPT ![t] = "error"]
                  /\ UNCHANGED urls
        ELSE /\ pc' = [pc EXCEPT ![t] = "start"]
             /\ UNCHANGED <<urls, events, result>>
    /\ UNCHANGED <<inputs, limiter, permits, locals, dedupGhost, dlGhost>>
    /\ UNCHANGED others

\* link.rs 157-175: progress_bar.start, progress_bar.update(5, ..) and the
\* launch of the first download attempt.  update() never returns an error.
StartProgress(t) ==
    /\ pc[t] = "start"
    /\ \E sent \in BOOLEAN :
        IF sent
        THEN /\ msgId' = [msgId EXCEPT ![t] = "some"]
             /\ events' = Ev(t, <<"msg_start", "dl_start">>)
             /\ IF timed
                THEN /\ dlClose' = [dlClose EXCEPT ![chat[t]] =
                           @ \/ (chat[t] \in DOMAIN dlAt
                                    /\ dlAt[chat[t]] < RATE_LIMIT_SECS)]
                     /\ dlAt' = Put(dlAt, chat[t], 0)
                ELSE UNCHANGED dlGhost
             /\ pc' = [pc EXCEPT ![t] = "downloading"]
             /\ UNCHANGED result
        ELSE /\ result' = [result EXCEPT ![t] = "error"]
             /\ pc' = [pc EXCEPT ![t] = "return"]
             /\ UNCHANGED <<msgId, events, dlGhost>>
    /\ UNCHANGED <<inputs, urls, limiter, permits, file, fileSize, guard,
                   retries, dedupGhost>>
    /\ UNCHANGED others

\* link.rs 166-236: one download attempt ends.  A failed attempt either
\* leads (after the backoff sleep) to the next attempt or, once the retries
\* are exhausted, to the failure report: progress_bar.delete(), the
\* user-facing message, removal of the Dedup Key, return Ok.
DownloadAttempt(t) ==
    /\ pc[t] = "downloading"
    /\ \E out \in {"ok", "err", "timeout"}, sent \in BOOLEAN, size \in Sizes :
        IF out = "ok"
        THEN /\ file' = [file EXCEPT ![t] = "present"]
             /\ fileSize' = [fileSize EXCEPT ![t] = size]
             /\ retries' = [retries EXCEPT ![t] = 0]
             /\ events' = Ev(t, <<"dl_ok">>)
             /\ pc' = [pc EXCEPT ![t] = "downloaded"]
             /\ UNCHANGED <<urls, msgId, result>>
        ELSE IF ~Exhausted(retries[t] + 1)
        THEN /\ retries' = [retries EXCEPT ![t] = @ + 1]
             /\ UNCHANGED <<file, fileSize, events, pc, urls, msgId, result>>
        ELSE /\ retries' = [retries EXCEPT ![t] = 0]
             /\ msgId' = [msgId EXCEPT ![t] = "none"]
             /\ pc' = [pc EXCEPT ![t] = "return"]
             /\ IF sent
                THEN /\ urls' = RemoveUrl(urls, link[t])
                     /\ events' = Ev(t, <<"dl_fail", "msg_delete", "notice",
                                           "key_remove">>)
                     /\ result' = [result EXCEPT ![t] = "download_failed"]
                ELSE /\ events' = Ev(t, <<"dl_fail", "msg_delete">>)
                     /\ result' = [result EXCEPT ![t] = "error"]
                     /\ UNCHANGED urls
             /\ UNCHANGED <<file, fileSize>>
    /\ UNCHANGED <<inputs, limiter, permits, guard, dedupGhost, dlGhost>>
    /\ UNCHANGED others

\* link.rs 238-250, 300: the TempFile guard, fs::metadata(&path)?.len() and
\* the choice of the transport.
SelectTransport(t) ==
    /\ pc[t] = "downloaded"
    /\ guard' = [guard EXCEPT ![t] = TRUE]
    /\ \E metaOk \in BOOLEAN :
        IF metaOk
        THEN /\ IF UseMTProto(fileSize[t])
                THEN /\ pc' = [pc EXCEPT ![t] = "upload_mtproto"]
                     /\ events' = Ev(t, <<"persistent">>)
                ELSE /\ pc' = [pc EXCEPT ![t] = "upload_botapi"]
                     /\ events' = Ev(t, <<"direct">>)
             /\ UNCHANGED result
        ELSE /\ result' = [result EXCEPT ![t] = "error"]
             /\ pc' = [pc EXCEPT ![t] = "return"]
             /\ UNCHANGED events
    /\ UNCHANGED <<inputs, urls, limiter, permits, msgId, file, fileSize,
                   retries, dedupGhost, dlGhost>>
    /\ UNCHANGED others

\* link.rs 250-299: upload through the MTProto uploader and its report.
UploadMTProto(t) ==
    /\ pc[t] = "upload_mtproto"
    /\ msgId' = [msgId EXCEPT ![t] = "none"]
    /\ \E ok \in BOOLEAN, sent \in BOOLEAN :
        IF ok
        THEN /\ events' = Ev(t, <<"up_ok", "msg_delete">>)
             /\ result' = [result EXCEPT ![t] = "success"]
             /\ pc' = [pc EXCEPT ![t] = "logging"]
        ELSE IF sent
        THEN /\ events' = Ev(t, <<"up_fail", "msg_delete", "notice">>)
             /\ result' = [result EXCEPT ![t] = "upload_failed"]
             /\ pc' = [pc EXCEPT ![t] = "logging"]
        ELSE /\ events' = Ev(t, <<"up_fail", "msg_delete">>)
             /\ result' = [result EXCEPT ![t] = "error"]
             /\ pc' = [pc EXCEPT ![t] = "return"]
    /\ UNCHANGED <<inputs, urls, limiter, permits, file, fileSize, guard,
                   retries, dedupGhost, dlGhost>>
    /\ UNCHANGED others

\* link.rs 300-359: one Bot API send attempt ends; as for the download, the
\* last failed attempt is followed by progress_bar.delete() and the notice.
UploadBotApi(t) ==
    /\ pc[t] = "upload_botapi"
    /\ \E out \in {"ok", "err", "timeout"}, sent \in BOOLEAN :
        IF out = "ok"
        THEN /\ msgId' = [msgId EXCEPT ![t] = BotApiSendProgress(msgId[t])]
             /\ retries' = [retries EXCEPT ![t] = 0]
             /\ events' = Ev(t, <<"up_ok">>)
             /\ result' = [result EXCEPT ![t] = "success"]
             /\ pc' = [pc EXCEPT ![t] = "logging"]
        ELSE IF ~Exhausted(retries[t] + 1)
        THEN /\ retries' = [retries EXCEPT ![t] = @ + 1]
             /\ UNCHANGED <<msgId, events, result, pc>>
        ELSE /\ retries' = [retries EXCEPT ![t] = 0]
             /\ msgId' = [msgId EXCEPT ![t] = "none"]
             /\ IF sent
                THEN /\ events' = Ev(t, <<"up_fail", "msg_delete", "notice">>)
                     /\ result' = [result EXCEPT ![t] = "upload_failed"]
                     /\ pc' = [pc EXCEPT ![t] = "logging"]
                ELSE /\ events' = Ev(t, <<"up_fail", "msg_delete">>)
                     /\ result' = [result EXCEPT ![t] = "error"]
                     /\ pc' = [pc EXCEPT ![t] = "return"]
    /\ UNCHANGED <<inputs, urls, limiter, permits, file, fileSize, guard,
                   dedupGhost, dlGhost>>
    /\ UNCHANGED others

\* the Dedup Key removed before the logging step
LogAfterCleanup(t) ==
    /\ pc[t] = "logging"
    /\ urls' = RemoveUrl(urls, link[t])
    /\ events' = Ev(t, <<"key_remove", "log">>)
    /\ pc' = [pc EXCEPT ![t] = "return"]
    /\ UNCHANGED <<inputs, limiter, permits, locals, result, dedupGhost, dlGhost>>
    /\ UNCHANGED others

\* a failure of the database call propagated like the `?` of the sends
LogFailurePropagated(t) ==
    /\ pc[t] = "logging"
    /\ \E dbOk \in BOOLEAN :
        IF dbOk
        THEN /\ events' = Ev(t, <<"log">>)
             /\ pc' = [pc EXCEPT ![t] = "cleanup"]
             /\ UNCHANGED result
        ELSE /\ events' = Ev(t, <<"log_failed">>)
             /\ pc' = [pc EXCEPT ![t] = "return"]
             /\ result' = [result EXCEPT ![t] = "error"]
    /\ UNCHANGED <<inputs, urls, limiter, permits, locals, dedupGhost, dlGhost>>
    /\ UNCHANGED others

\* link.rs 361-385: the logging step; a failure of the database call is
\* only reported.
LogDownload(t) ==
    /\ pc[t] = "logging"
    /\ \E dbOk \in BOOLEAN :
        events' = Ev(t, <<IF dbOk THEN "log" ELSE "log_failed">>)
    /\ pc' = [pc EXCEPT ![t] = "cleanup"]
    /\ UNCHANGED <<inputs, urls, limiter, permits, locals, result, dedupGhost,
                   dlGhost>>
    /\ UNCHANGED others

\* link.rs 387-391: removal of the Dedup Key at the end of the Task.
RemoveKey(t) ==
    /\ pc[t] = "cleanup"
    /\ urls' = RemoveUrl(urls, link[t])
    /\ events' = Ev(t, <<"key_remove">>)
    /\ pc' = [pc EXCEPT ![t] = "return"]
    /\ UNCHANGED <<inputs, limiter, permits, locals, result, dedupGhost, dlGhost>>
    /\ UNCHANGED others

\* link_handler returns (Ok or Err) after the permit was acquired: its locals
\* are dropped in reverse order of declaration, _temp_file_guard (link.rs
\* 416-429) before _upload_permit (link.rs 133).
Return(t) ==
    /\ pc[t] = "return"
    /\ file' = [file EXCEPT ![t] = IF guard[t] THEN "removed" ELSE @]
    /\ permits' = ReleasePermit(permits)
    /\ events' = [events EXCEPT ![t] = SelectSeq(@, Kept) \o
                      (IF guard[t] THEN <<"file_remove", "permit_release">>
                                   ELSE <<"permit_release">>)]
    /\ fileSize' = [fileSize EXCEPT ![t] = 0]
    /\ guard' = [guard EXCEPT ![t] = FALSE]
    /\ pc' = [pc EXCEPT ![t] = "done"]
    /\ UNCHANGED <<inputs, urls, limiter, msgId, retries, result, dedupGhost,
                   dlGhost>>
    /\ UNCHANGED others

\* the passage of one second
Tick ==
    /\ timed
    /\ lastSend' = Aged(lastSend)
    /\ dedupAt' = Aged(dedupAt)
    /\ dlAt' = Aged(dlAt)
    /\ sleepLeft' = [t \in Tasks |-> Max(sleepLeft[t] - 1, 0)]
    /\ UNCHANGED <<pc, inputs, urls, rlLock, minGap, permits, locals, result,
                   events, near, dlClose>>
    /\ UNCHANGED others

Next ==
    \/ \E t \in Tasks : Submit(t)
    \/ \E t \in Tasks : Dedup(t)
    \/ \E t \in Tasks : RateLimit(t)
    \/ \E t \in Tasks : RateLimitWake(t)
    \/ \E t \in Tasks : AcquirePermit(t)
    \/ \E t \in Tasks : SubscriptionGate(t)
    \/ \E t \in Tasks : StartProgress(t)
    \/ \E t \in Tasks : DownloadAttempt(t)
    \/ \E t \in Tasks : SelectTransport(t)
    \/ \E t \in Tasks : UploadMTProto(t)
    \/ \E t \in Tasks : UploadBotApi(t)
    \/ \E t \in Tasks : LogDownload(t)
    \/ \E t \in Tasks : RemoveKey(t)
    \/ \E t \in Tasks : Return(t)

NextRate ==
    \/ Next
    \/ Tick

Spec == Init /\ [][Next]_vars

SpecRate == InitRate /\ [][NextRate]_vars

\* ------------------------------------------- the download phase in detail
\* fetcher.rs download_video_from_url run by the retry loop of link.rs
\* 166-196, and the failure report of link.rs 198-228.  A text is a list of
\* pieces; contains(..) asks for one of them.

\* what a failing yt-dlp process may write to its stderr
DlStderrLines ==
    {"Sign in required", "Video unavailable", "Requested format is not available",
     "Private video", "This video is age-restricted", "Failed to parse", "JSON",
     "HTTP Error 500"}

\* e.to_string().contains(phrase)
Contains(text, phrase) == \E i \in 1..Len(text) : text[i] = phrase

\* the private rule asked first
ErrorMessagePrivateFirst(text) ==
    IF Contains(text, "Private video") THEN "private"
    ELSE IF Contains(text, "Sign in required") THEN "sign_in"
    ELSE IF Contains(text, "Video unavailable")
            \/ Contains(text, "Requested format is not available") THEN "unavailable"
    ELSE IF Contains(text, "This video is age-restricted") THEN "age_restricted"
    ELSE IF Contains(text, "Failed to parse") \/ Contains(text, "JSON") THEN "api_response"
    ELSE IF Contains(text, "timeout") THEN "timeout"
    ELSE "generic"

\* link.rs 205-226: error_message
ErrorMessage(text) ==
    IF Contains(text, "Sign in required") THEN "sign_in"
    ELSE IF Contains(text, "Video unavailable")
            \/ Contains(text, "Requested format is not available") THEN "unavailable"
    ELSE IF Contains(text, "Private video") THEN "private"
    ELSE IF Contains(text, "This video is age-restricted") THEN "age_restricted"
    ELSE IF Contains(text, "Failed to parse") \/ Contains(text, "JSON") THEN "api_response"
    ELSE IF Contains(text, "timeout") THEN "timeout"
    ELSE "generic"

\* the same pause after every failure
DelayFlat(r) == 1000

\* delay_ms = (1000 * 2_u64.pow(retries - 1)).min(30000)
DelayMs(r) == Min(1000 * 2^(r - 1), 30000)

\* Child::wait_with_output reads what is left in the pipe through the
\* handle still held by the child; a handle taken out of it yields nothing
Collected(taken, pipe) == IF taken THEN <<>> ELSE pipe

InitDownload ==
    /\ PipelineOff
    /\ UploadOff
    /\ MoreOff
    /\ dlPc = "spawn"
    /\ dlRetries = 0
    /\ dlStderr \in DlStderrLines
    /\ dlOutcome = "none"
    /\ childErr = <<>>
    /\ stderrPipe = <<>>
    /\ stderrTaken = FALSE
    /\ dlErr = <<>>
    /\ dlNotice = "none"
    /\ dlAttempts = 0
    /\ dlHistory = <<>>
    /\ dlPauses = <<>>

\* link.rs 169-175, fetcher.rs 77-82: an attempt starts; the process is
\* spawned and its stderr handle is taken for the line reader.
DlSpawn ==
    /\ dlPc = "spawn"
    /\ \E o \in {"exit_ok", "exit_fail", "hang"} :
        /\ dlOutcome' = o
        /\ childErr' = IF o = "exit_fail" THEN <<dlStderr>> ELSE <<>>
    /\ stderrPipe' = <<>>
    /\ stderrTaken' = TRUE
    /\ dlAttempts' = dlAttempts + 1
    /\ dlPc' = "running"
    /\ UNCHANGED <<dlRetries, dlStderr, dlErr, dlNotice, dlHistory, dlPauses>>
    /\ UNCHANGED <<pipeline, upload, more>>

\* the process writes a line to its stderr
DlChildWrites ==
    /\ dlPc = "running"
    /\ childErr # <<>>
    /\ stderrPipe' = Append(stderrPipe, Head(childErr))
    /\ childErr' = Tail(childErr)
    /\ UNCHANGED <<dlPc, dlRetries, dlStderr, dlOutcome, stderrTaken, dlErr,
                   dlNotice, dlAttempts, dlHistory, dlPauses>>
    /\ UNCHANGED <<pipeline, upload, more>>

\* fetcher.rs 112-132: stderr_reader.next_line() returns a line; it is
\* traced, searched for a progress figure and dropped.
DlReadStderr ==
    /\ dlPc = "running"
    /\ stderrPipe # <<>>
    /\ stderrPipe' = Tail(stderrPipe)
    /\ UNCHANGED <<dlPc, dlRetries, dlStderr, dlOutcome, childErr, stderrTaken,
                   dlErr, dlNotice, dlAttempts, dlHistory, dlPauses>>
    /\ UNCHANGED <<pipeline, upload, more>>

\* fetcher.rs 108: the process has exited, stdout is at its end, the select
\* loop is left.
DlStdoutEof ==
    /\ dlPc = "running"
    /\ dlOutcome # "hang"
    /\ childErr = <<>>
    /\ dlPc' = "exited"
    /\ UNCHANGED <<dlRetries, dlStderr, dlOutcome, childErr, stderrPipe,
                   stderrTaken, dlErr, dlNotice, dlAttempts, dlHistory, dlPauses>>
    /\ UNCHANGED <<pipeline, upload, more>>

\* link.rs 179-194: an attempt failed with the given text, by what it ended
DlAttemptFailed(text, how) ==
    /\ dlRetries' = dlRetries + 1
    /\ dlHistory' = Append(dlHistory, how)
    /\ IF Exhausted(dlRetries + 1)
       THEN /\ dlErr' = text
            /\ dlPc' = "report"
            /\ UNCHANGED dlPauses
       ELSE /\ dlPauses' = Append(dlPauses, DelayMs(dlRetries + 1))
            /\ dlPc' = "backoff"
            /\ UNCHANGED dlErr

\* fetcher.rs 137-230 and link.rs 177-186: wait_with_output and the result
\* of the attempt.
DlWaitWithOutput ==
    /\ dlPc = "exited"
    /\ LET captured == Collected(stderrTaken, stderrPipe) IN
       IF dlOutcome = "exit_ok"
       THEN \E found \in BOOLEAN :
            IF found
            THEN /\ dlPc' = "downloaded"
                 /\ dlHistory' = Append(dlHistory, "ok")
                 /\ UNCHANGED <<dlRetries, dlErr, dlPauses>>
            ELSE DlAttemptFailed(<<"Downloaded file not found">>, "not_found")
       ELSE DlAttemptFailed(<<"yt-dlp failed: ">> \o captured, "exit_fail")
    /\ UNCHANGED <<dlStderr, dlOutcome, childErr, stderrPipe, stderrTaken,
                   dlNotice, dlAttempts>>
    /\ UNCHANGED <<pipeline, upload, more>>

\* link.rs 177, 187-194: DOWNLOAD_TIMEOUT passes before the attempt ends.
DlTimeout ==
    /\ dlPc \in {"running", "exited"}
    /\ DlAttemptFailed(<<"deadline has elapsed">>, "timeout")
    /\ UNCHANGED <<dlStderr, dlOutcome, childErr, stderrPipe, stderrTaken,
                   dlNotice, dlAttempts>>
    /\ UNCHANGED <<pipeline, upload, more>>

\* link.rs 185, 193: the backoff sleep is over, the loop goes round.
DlBackoffEnd ==
    /\ dlPc = "backoff"
    /\ dlPc' = "spawn"
    /\ UNCHANGED <<dlRetries, dlStderr, dlOutcome, childErr, stderrPipe,
                   stderrTaken, dlErr, dlNotice, dlAttempts, dlHistory, dlPauses>>
    /\ UNCHANGED <<pipeline, upload, more>>

\* link.rs 198-228: the failure report.
DlReport ==
    /\ dlPc = "report"
    /\ dlNotice' = ErrorMessage(dlErr)
    /\ dlPc' = "reported"
    /\ UNCHANGED <<dlRetries, dlStderr, dlOutcome, childErr, stderrPipe,
                   stderrTaken, dlErr, dlAttempts, dlHistory, dlPauses>>
    /\ UNCHANGED <<pipeline, upload, more>>

NextDownload ==
    \/ DlSpawn
    \/ DlChildWrites
    \/ DlReadStderr
    \/ DlStdoutEof
    \/ DlWaitWithOutput
    \/ DlTimeout
    \/ DlBackoffEnd
    \/ DlReport

SpecDownload == InitDownload /\ [][NextDownload]_vars

\* The failure report on its own: the texts a failure may carry are lists
\* of up to MaxPieces of the phrases asked for and of two other texts.
MaxPieces == 2
ReportPhrases == DlStderrLines \cup {"timeout", "deadline has elapsed"}
ReportTexts ==
    UNION {[1..n -> ReportPhrases] : n \in 0..MaxPieces}

InitReport ==
    /\ PipelineOff
    /\ UploadOff
    /\ MoreOff
    /\ dlPc = "report"
    /\ dlRetries = MAX_ATTEMPTS
    /\ dlStderr = "none"
    /\ dlOutcome = "exit_fail"
    /\ childErr = <<>>
    /\ stderrPipe = <<>>
    /\ stderrTaken = TRUE
    /\ dlErr \in ReportTexts
    /\ dlNotice = "none"
    /\ dlAttempts = MAX_ATTEMPTS
    /\ dlHistory = [i \in 1..MAX_ATTEMPTS |-> "exit_fail"]
    /\ dlPauses = <<>>

NextReport == DlReport

SpecReport == InitReport /\ [][NextReport]_vars

\* --------------------------------------------- the upload phase in detail
\* uploader.rs 133-168 (with_reconnect_retry), the persistent branch of
\* link.rs 250-299, which hands the upload to "the new reconnect mechanism
\* which includes retries internally", and the direct branch of link.rs
\* 300-359 with its own retry loop.

max_retries == 3
RECONNECT_PAUSE_MS == 2000

\* the errors an invocation of the operation may end with
UpErrors ==
    {<<"read 0 bytes">>, <<"ConnectionReset">>, <<"Connection lost">>,
     <<"FLOOD_WAIT_5">>, <<"FLOOD_WAIT_45">>, <<"FILE_PARTS_INVALID">>}
UpOk == <<"ok">>

\* "read 0 bytes" not recognised
IsDisconnectNoRead(text) ==
    Contains(text, "ConnectionReset") \/ Contains(text, "Connection lost")

\* every error taken for a disconnect
IsDisconnectAny(text) == TRUE

\* uploader.rs 144-146: the guard of the reconnecting arm
IsDisconnect(text) ==
    \/ Contains(text, "read 0 bytes")
    \/ Contains(text, "ConnectionReset")
    \/ Contains(text, "Connection lost")

\* crate::utils::retry::extract_flood_wait: the seconds of FLOOD_WAIT_<n>,
\* 0 when the text holds no such pattern
ExtractFloodWait(text) ==
    IF Contains(text, "FLOOD_WAIT_5") THEN 5
    ELSE IF Contains(text, "FLOOD_WAIT_45") THEN 45
    ELSE 0

InitUpload ==
    /\ PipelineOff
    /\ DownloadOff
    /\ MoreOff
    /\ upTransport \in {"persistent", "direct"}
    /\ upPc = "invoke"
    /\ attempt = 0
    /\ upRetries = 0
    /\ lastErr = <<>>
    /\ client = 0
    /\ reconnects = <<>>
    /\ upHistory = <<>>
    /\ upPauses = <<>>
    /\ upErr = <<>>
    /\ upNotice = "none"

\* uploader.rs 139, 163-167: the for loop goes to attempt a + 1
WrNextAttempt(a) ==
    /\ attempt' = a
    /\ IF a < max_retries
       THEN upPc' = "invoke" /\ UNCHANGED upErr
       ELSE upPc' = "returned" /\ upErr' = <<"Operation failed after retries">>

\* uploader.rs 140-146, 161: operation().await and the match on its result
WrInvoke ==
    /\ upTransport = "persistent"
    /\ upPc = "invoke"
    /\ \E r \in UpErrors \cup {UpOk} :
        /\ upHistory' = Append(upHistory, r)
        /\ IF r = UpOk
           THEN upPc' = "returned" /\ upErr' = <<>> /\ UNCHANGED lastErr
           ELSE IF IsDisconnect(r)
           THEN upPc' = "reconnect" /\ lastErr' = r /\ UNCHANGED upErr
           ELSE upPc' = "returned" /\ upErr' = r /\ UNCHANGED lastErr
    /\ UNCHANGED <<upTransport, attempt, upRetries, client, reconnects, upPauses,
                   upNotice>>
    /\ UNCHANGED <<pipeline, download, more>>

\* uploader.rs 147-159 (reconnect_client 91-131): the reconnection and what
\* follows it
WrReconnect ==
    /\ upPc = "reconnect"
    /\ \E ok \in BOOLEAN :
        /\ reconnects' = Append(reconnects, ok)
        /\ IF ok
           THEN /\ client' = client + 1
                /\ IF attempt < max_retries - 1
                   THEN /\ upPauses' = Append(upPauses, RECONNECT_PAUSE_MS)
                        /\ upPc' = "sleep"
                        /\ UNCHANGED <<attempt, upErr>>
                   ELSE /\ WrNextAttempt(attempt + 1)
                        /\ UNCHANGED upPauses
           ELSE /\ UNCHANGED <<client, upPauses>>
                /\ IF attempt = max_retries - 1
                   THEN upPc' = "returned" /\ upErr' = lastErr /\ UNCHANGED attempt
                   ELSE WrNextAttempt(attempt + 1)
    /\ UNCHANGED <<upTransport, upRetries, lastErr, upHistory, upNotice>>
    /\ UNCHANGED <<pipeline, download, more>>

\* uploader.rs 157: the pause after a successful reconnection is over
WrSleepEnd ==
    /\ upPc = "sleep"
    /\ WrNextAttempt(attempt + 1)
    /\ UNCHANGED <<upTransport, upRetries, lastErr, client, reconnects, upHistory,
                   upPauses, upNotice>>
    /\ UNCHANGED <<pipeline, download, more>>

\* link.rs 275-299: what link_handler tells the user about the result
UpReportMTProto ==
    /\ upTransport = "persistent"
    /\ upPc = "returned"
    /\ upNotice' = IF upErr = <<>> THEN "none"
                   ELSE IF ExtractFloodWait(upErr) > 0 THEN "rate_limited"
                   ELSE "upload_failed"
    /\ upPc' = "finished"
    /\ UNCHANGED <<upTransport, attempt, upRetries, lastErr, client, reconnects,
                   upHistory, upPauses, upErr>>
    /\ UNCHANGED <<pipeline, download, more>>

\* link.rs 303-343: one attempt of the Bot API loop under UPLOAD_TIMEOUT
BotSend ==
    /\ upTransport = "direct"
    /\ upPc = "invoke"
    /\ \E r \in UpErrors \cup {UpOk, <<"deadline has elapsed">>} :
        /\ upHistory' = Append(upHistory, r)
        /\ IF r = UpOk
           THEN upPc' = "returned" /\ upErr' = <<>>
                /\ UNCHANGED <<upRetries, upPauses>>
           ELSE /\ upRetries' = upRetries + 1
                /\ IF Exhausted(upRetries + 1)
                   THEN upPc' = "returned" /\ upErr' = r /\ UNCHANGED upPauses
                   ELSE /\ upPauses' = Append(upPauses, DelayMs(upRetries + 1))
                        /\ upPc' = "backoff"
                        /\ UNCHANGED upErr
    /\ UNCHANGED <<upTransport, attempt, lastErr, client, reconnects, upNotice>>
    /\ UNCHANGED <<pipeline, download, more>>

\* link.rs 332, 340: the backoff sleep is over
BotBackoffEnd ==
    /\ upPc = "backoff"
    /\ upPc' = "invoke"
    /\ UNCHANGED <<upTransport, attempt, upRetries, lastErr, client, reconnects,
                   upHistory, upPauses, upErr, upNotice>>
    /\ UNCHANGED <<pipeline, download, more>>

\* link.rs 345-358: what link_handler tells the user about the result
UpReportBotApi ==
    /\ upTransport = "direct"
    /\ upPc = "returned"
    /\ upNotice' = IF upErr = <<>> THEN "none" ELSE "send_failed"
    /\ upPc' = "finished"
    /\ UNCHANGED <<upTransport, attempt, upRetries, lastErr, client, reconnects,
                   upHistory, upPauses, upErr>>
    /\ UNCHANGED <<pipeline, download, more>>

NextUpload ==
    \/ WrInvoke
    \/ WrReconnect
    \/ WrSleepEnd
    \/ UpReportMTProto
    \/ BotSend
    \/ BotBackoffEnd
    \/ UpReportBotApi

SpecUpload == InitUpload /\ [][NextUpload]_vars

\* ------------------------------------------------ the connection slot
\* MTProtoUploader keeps its Client in one Arc<Mutex<Client>> (uploader.rs
\* 18, 57).  The slot is used by the keep-alive task spawned in new
\* (59-86), by the peer lookups of uploads (peers.rs 13, 24) and by
\* reconnect_client (91-131), called from the keep-alive task and from
\* with_reconnect_retry (149).  Client objects are told apart by small
\* identities; the slot holds one of them.

\* the period of tokio::time::interval in the keep-alive task, in minutes
KEEPALIVE_MINUTES == 5
\* how late a tick of the interval is followed in the model
MaxLate == 2
KeepAlive == "keepalive"
UploadTasks == {"upload1", "upload2"}
ConnTasks == {KeepAlive} \cup UploadTasks
ClientIds == 0..Cardinality(ConnTasks)
NoClient == -1

\* Mutex::lock completes only while nobody holds the guard
LockIgnored(holder) == TRUE
LockFree(holder) == holder = "none"

\* a client identity that neither the slot nor a task refers to
FreshClient ==
    CHOOSE i \in ClientIds :
        /\ i # conn.slot
        /\ \A t \in ConnTasks : i # conn.using[t] /\ i # conn.fresh[t]
        /\ \A j \in ClientIds :
              (j # conn.slot /\ \A t \in ConnTasks :
                   j # conn.using[t] /\ j # conn.fresh[t]) => i <= j

\* where a task continues after reconnect_client returned: the keep-alive
\* loop goes round to interval.tick() (78-85), an upload goes on
StopsOnFailure(t, ok) ==
    IF t = KeepAlive THEN (IF ok THEN "tick" ELSE "stopped") ELSE "idle"
AfterReconnect(t, ok) == IF t = KeepAlive THEN "tick" ELSE "idle"

\* the steps of reconnect_client that end with `?` (92-122)
ReconnectSteps ==
    {"env::var", "load_file_or_create", "connect", "is_authorized",
     "bot_sign_in", "save_to_file"}

\* whether reconnect_client goes on to put its client into the slot
InstallsOnceConnected(failed_at) ==
    failed_at \in {"none", "is_authorized", "bot_sign_in", "save_to_file"}
Installs(failed_at) == failed_at = "none"

InitConn ==
    /\ PipelineOff
    /\ DownloadOff
    /\ UploadOff
    /\ bar = Off
    /\ fwd = Off
    /\ peer = Off
    /\ disp = Off
    /\ dlg = Off
    /\ conn = [pc |-> "on",
               slot |-> 0,
               holder |-> "none",
               using |-> [t \in ConnTasks |-> NoClient],
               fresh |-> [t \in ConnTasks |-> NoClient],
               ready |-> [t \in ConnTasks |-> FALSE],
               failed |-> "none",
               at |-> [t \in ConnTasks |->
                          IF t = KeepAlive THEN "tick" ELSE "idle"],
               due |-> 0,
               ping |-> "none"]

connFrame == <<pipeline, download, upload, bar, fwd, peer, disp, dlg>>

\* a minute passes; a tick that is due fires before the next minute
Minute ==
    /\ conn.pc = "on"
    /\ ~(conn.at[KeepAlive] = "tick" /\ conn.due <= 0)
    /\ conn.due > -MaxLate
    /\ conn' = [conn EXCEPT !.due = conn.due - 1]
    /\ UNCHANGED connFrame

\* interval.tick().await returns: the first tick at once, the next ones
\* one period after the previous deadline
KaTick ==
    /\ conn.pc = "on"
    /\ conn.at[KeepAlive] = "tick"
    /\ conn.due <= 0
    /\ conn' = [conn EXCEPT !.at[KeepAlive] = "lock",
                            !.due = conn.due + KEEPALIVE_MINUTES]
    /\ UNCHANGED connFrame

\* an upload reaches its peer lookup
UploadStart(u) ==
    /\ conn.pc = "on"
    /\ conn.at[u] = "idle"
    /\ conn' = [conn EXCEPT !.at[u] = "lock"]
    /\ UNCHANGED connFrame

\* client.lock().await: the task takes the guard and reaches the client
\* that is in the slot now
Lock(t) ==
    /\ conn.pc = "on"
    /\ conn.at[t] = "lock"
    /\ LockFree(conn.holder)
    /\ conn' = [conn EXCEPT !.holder = t,
                            !.using[t] = conn.slot,
                            !.at[t] = "invoke"]
    /\ UNCHANGED connFrame

\* the keep-alive call returns and the guard is dropped at the end of the
\* block; any error leads to reconnect_client
KaInvoke(ok) ==
    /\ conn.pc = "on"
    /\ conn.at[KeepAlive] = "invoke"
    /\ conn' = [conn EXCEPT !.holder = "none",
                            !.using[KeepAlive] = NoClient,
                            !.ping = IF ok THEN "ok" ELSE "failed",
                            !.at[KeepAlive] = IF ok THEN "tick" ELSE "connect"]
    /\ UNCHANGED connFrame

\* the lookup of an upload returns and its guard is dropped; the retry
\* wrapper reconnects on a disconnect
UploadInvoke(u, r) ==
    /\ conn.pc = "on"
    /\ conn.at[u] = "invoke"
    /\ conn' = [conn EXCEPT !.holder = "none",
                            !.using[u] = NoClient,
                            !.at[u] = IF r = "disconnect" THEN "connect"
                                                           ELSE "idle"]
    /\ UNCHANGED connFrame

\* reconnect_client up to the replacement: the new client is built,
\* authorized and its session saved without the guard; a failure of any
\* step returns early through `?`
Connect(t, failed_at) ==
    /\ conn.pc = "on"
    /\ conn.at[t] = "connect"
    /\ conn' = IF Installs(failed_at)
                 THEN [conn EXCEPT !.fresh[t] = FreshClient,
                                   !.ready[t] = failed_at = "none",
                                   !.at[t] = "replace"]
                 ELSE [conn EXCEPT !.failed = failed_at,
                                   !.at[t] = AfterReconnect(t, FALSE)]
    /\ UNCHANGED connFrame

\* { let mut client_guard = client.lock().await; *client_guard = new_client; }
Replace(t) ==
    /\ conn.pc = "on"
    /\ conn.at[t] = "replace"
    /\ LockFree(conn.holder)
    /\ conn' = [conn EXCEPT !.slot = conn.fresh[t],
                            !.fresh[t] = NoClient,
                            !.ready[t] = FALSE,
                            !.at[t] = AfterReconnect(t, TRUE)]
    /\ UNCHANGED connFrame

NextConn ==
    \/ Minute
    \/ KaTick
    \/ \E u \in UploadTasks : UploadStart(u)
    \/ \E t \in ConnTasks : Lock(t)
    \/ \E ok \in BOOLEAN : KaInvoke(ok)
    \/ \E u \in UploadTasks, r \in {"ok", "disconnect", "other"} :
           UploadInvoke(u, r)
    \/ \E t \in ConnTasks, failed_at \in ReconnectSteps \cup {"none"} :
           Connect(t, failed_at)
    \/ \E t \in ConnTasks : Replace(t)

SpecConn == InitConn /\ [][NextConn]_vars

\* the runtime keeps polling the keep-alive task, time passes, calls on
\* the network return, and the Mutex serves its waiters in turn
FairConn ==
    /\ SpecConn
    /\ WF_vars(Minute)
    /\ WF_vars(KaTick)
    /\ SF_vars(Lock(KeepAlive))
    /\ WF_vars(\E ok \in BOOLEAN : KaInvoke(ok))
    /\ WF_vars(\E u \in UploadTasks, r \in {"ok", "disconnect", "other"} :
                   UploadInvoke(u, r))
    /\ WF_vars(\E failed_at \in ReconnectSteps \cup {"none"} :
                   Connect(KeepAlive, failed_at))
    /\ SF_vars(Replace(KeepAlive))

\* ---------------------------------------------------- the progress bar
\* utils/progress_bar.rs: one ProgressBar, its ProgressBarInner fields
\* message_id, last_update (kept as the seconds passed since it, up to
\* MIN_UPDATE_INTERVAL) and last_percentage, and what its calls did: `last`
\* describes the latest call of update, `calls` lists the calls of a
\* traced run.

\* MIN_UPDATE_INTERVAL, in seconds
MIN_UPDATE_INTERVAL == 3
\* "Minimum 5% change"
MIN_CHANGE == 5
\* the number of update calls of a traced run
MaxCalls == 5
Percents == {10, 12, 14, 15, 20, 100}
\* texts of the errors edit_message_text can return
EditErrors ==
    {"MESSAGE_ID_INVALID", "message to edit not found",
     "message can't be edited", "message is not modified", "Too Many Requests"}
NoMessage == 0

\* u8::saturating_sub
SaturatingSub(a, b) == IF a >= b THEN a - b ELSE 0

AnyChange(percentage, last_percentage) == TRUE
SignificantChange(percentage, last_percentage) ==
    SaturatingSub(percentage, last_percentage) >= MIN_CHANGE

\* should_update of update (56-64); since < 0 stands for last_update = None
AlwaysUpdate(percentage, since, last_percentage) == TRUE
ShouldUpdate(percentage, since, last_percentage) ==
    IF since >= 0
      THEN LET time_passed == since >= MIN_UPDATE_INTERVAL
               significant_change == SignificantChange(percentage, last_percentage)
               is_completion == percentage = 100
           IN  (time_passed /\ (significant_change \/ is_completion))
                   \/ is_completion
      ELSE TRUE

\* the error texts after which the handle is reset ("Reset on invalid ID")
Invalidated(error_str) ==
    error_str \in {"MESSAGE_ID_INVALID", "message to edit not found",
                   "message can't be edited"}

\* "Create a new message only if not completed"
ReplacesAlways(percentage) == TRUE
CreatesReplacement(percentage) == percentage < 100

\* the id of a message that send_message has just created
NewMessage(old) == IF old = 1 THEN 2 ELSE 1

NoCall ==
    [percentage |-> 0, time_passed |-> FALSE, had_last |-> FALSE, before |-> 0,
     handle |-> NoMessage, after |-> NoMessage, rendered |-> FALSE,
     edit |-> "none", sent |-> "none", ret |-> "none"]

\* ProgressBar::new (31-41)
NewBar(traced) ==
    [pc |-> "on",
     message_id |-> NoMessage,
     since |-> -1,
     last_percentage |-> 0,
     started |-> FALSE,
     traced |-> traced,
     calls |-> <<>>,
     last |-> NoCall,
     del |-> "none"]

BarAlone ==
    /\ PipelineOff
    /\ DownloadOff
    /\ UploadOff
    /\ conn = Off
    /\ fwd = Off
    /\ peer = Off
    /\ disp = Off
    /\ dlg = Off

InitBar == BarAlone /\ bar = NewBar(FALSE)

\* a run whose calls are listed: start, then updates that each arrive when
\* MIN_UPDATE_INTERVAL has passed since the last rendered one
InitBarWaited == BarAlone /\ bar = NewBar(TRUE)

barFrame == <<pipeline, download, upload, conn, fwd, peer, disp, dlg>>

\* start: the first message is sent and the time noted; a failed send
\* returns through `?` and leaves the fields as they were
BarStart ==
    /\ bar.pc = "on"
    /\ ~bar.started
    /\ bar.last = NoCall
    /\ bar' = [bar EXCEPT !.message_id = NewMessage(bar.message_id),
                          !.since = 0,
                          !.started = TRUE,
                          !.del = "none"]
    /\ UNCHANGED barFrame

\* a second passes
BarSecond ==
    /\ bar.pc = "on"
    /\ bar.since >= 0
    /\ bar.since < MIN_UPDATE_INTERVAL
    /\ bar' = [bar EXCEPT !.since = bar.since + 1]
    /\ UNCHANGED barFrame

\* 66-71: last_percentage is assigned after the early return of a suppressed
\* call, so it keeps the last rendered percentage
RemembersRequested(should_update, percentage, last_percentage) == percentage

Remembered(should_update, percentage, last_percentage) ==
    IF should_update THEN percentage ELSE last_percentage

\* update(percentage, ..) with the answers of Telegram to the edit and to
\* the send, should they be asked for
BarUpdate(percentage, editErr, sendOk) ==
    /\ bar.pc = "on"
    /\ bar.traced => Len(bar.calls) < MaxCalls
    /\ LET should_update ==
               ShouldUpdate(percentage, bar.since, bar.last_percentage)
           edits == should_update /\ bar.message_id # NoMessage
           invalid == edits /\ editErr # "ok" /\ Invalidated(editErr)
           sends == \/ should_update /\ bar.message_id = NoMessage
                    \/ invalid /\ CreatesReplacement(percentage)
           handle == IF sends
                       THEN IF sendOk THEN NewMessage(bar.message_id)
                            ELSE IF invalid THEN NoMessage ELSE bar.message_id
                       ELSE IF invalid THEN NoMessage ELSE bar.message_id
       IN  /\ ~edits => editErr = "ok"
           /\ ~sends => sendOk
           /\ bar' = [bar EXCEPT
                  !.message_id = handle,
                  !.since = IF should_update THEN 0 ELSE bar.since,
                  !.last_percentage =
                      Remembered(should_update, percentage,
                                 bar.last_percentage),
                  !.del = "none",
                  !.calls = IF bar.traced
                              THEN Append(bar.calls,
                                          [percentage |-> percentage,
                                           rendered |-> should_update])
                              ELSE bar.calls,
                  !.last = [percentage |-> percentage,
                            time_passed |-> bar.since >= MIN_UPDATE_INTERVAL,
                            had_last |-> bar.since >= 0,
                            before |-> bar.last_percentage,
                            handle |-> bar.message_id,
                            after |-> handle,
                            rendered |-> should_update,
                            edit |-> IF edits THEN editErr ELSE "none",
                            sent |-> IF ~sends THEN "none"
                                     ELSE IF sendOk THEN "ok" ELSE "failed",
                            ret |-> "Ok"]]
    /\ UNCHANGED barFrame

\* 147: the handle is cleared outside the `if let Err`
ClearsOnSuccess(deleteOk) == deleteOk

ClearsHandle(deleteOk) == TRUE

\* delete: with a handle, Telegram is asked to delete the message and the
\* handle is cleared, whatever Telegram answers; with none, nothing is asked.
\* del is what the last operation, if a delete, asked of Telegram
BarDelete(deleteOk) ==
    /\ bar.pc = "on"
    /\ bar.message_id = NoMessage => deleteOk
    /\ bar' = IF bar.message_id # NoMessage
                THEN [bar EXCEPT
                         !.message_id = IF ClearsHandle(deleteOk)
                                          THEN NoMessage ELSE bar.message_id,
                         !.del = IF deleteOk THEN "ok" ELSE "failed"]
                ELSE [bar EXCEPT !.del = "skipped"]
    /\ UNCHANGED barFrame

NextBar ==
    \/ BarStart
    \/ BarSecond
    \/ \E percentage \in Percents, editErr \in EditErrors \cup {"ok"},
          sendOk \in BOOLEAN : BarUpdate(percentage, editErr, sendOk)
    \/ \E deleteOk \in BOOLEAN : BarDelete(deleteOk)

SpecBar == InitBar /\ [][NextBar]_vars

\* an update of the traced run
BarUpdateWaited(percentage, editErr, sendOk) ==
    /\ bar.started
    /\ bar.since >= MIN_UPDATE_INTERVAL
    /\ BarUpdate(percentage, editErr, sendOk)

NextBarWaited ==
    \/ BarStart
    \/ BarSecond
    \/ \E percentage \in Percents, editErr \in EditErrors \cup {"ok"},
          sendOk \in BOOLEAN : BarUpdateWaited(percentage, editErr, sendOk)

SpecBarWaited == InitBarWaited /\ [][NextBarWaited]_vars

\* ------------------------------------------- forwarding the progress
\* The loop of download_video_from_url over the lines of the two output
\* streams of yt-dlp (fetcher.rs 84-135) with its locals last_percentage
\* and last_update_time (kept as the milliseconds passed since it, up to
\* the interval).  A line is given by what parse_progress_line matches in
\* it: the percentage (whole numbers here), and the number and the unit of
\* the size, the unit "none" when only the third pattern matches.

\* MIN_UPDATE_INTERVAL of the loop, in milliseconds
FORWARD_INTERVAL_MS == 500
\* the step of time in the loop, in milliseconds
FwdStepMs == 250
\* total_size when the line names no size
DEFAULT_TOTAL_SIZE == 10485760
\* the number of forwarded updates followed
MaxForwards == 4
FwdPercents == {0, 5, 37, 100, 150, 400}
FwdSizes ==
    {[number |-> 0, unit |-> "none"], [number |-> 3, unit |-> "MiB"],
     [number |-> 0, unit |-> "MiB"], [number |-> 512, unit |-> "KiB"]}
FwdLines == [percentage : FwdPercents, size : FwdSizes]
Streams == {"stdout", "stderr"}

\* parse_size_string (264-278): the number, cut to a whole number, times
\* the multiplier of a unit it knows; the text of any other unit but "B"
\* stays in the number, which then does not parse and counts as 1
ParseSizeString(size) ==
    CASE size.unit = "MiB" -> size.number * (1024 * 1024)
      [] size.unit = "MB" -> size.number * (1000 * 1000)
      [] size.unit = "GiB" -> size.number * (1024 * 1024 * 1024)
      [] size.unit = "GB" -> size.number * (1000 * 1000 * 1000)
      [] size.unit = "B" -> size.number
      [] OTHER -> 1

\* parse_progress_line (234-257)
ParseProgressLine(line) ==
    [percentage |-> line.percentage,
     total_size |-> IF line.size.unit = "none" THEN DEFAULT_TOTAL_SIZE
                    ELSE ParseSizeString(line.size)]

\* `as u8` of a float: cut to a whole number, kept within 0..255
AsU8(x) == IF x < 0 THEN 0 ELSE IF x > 255 THEN 255 ELSE x

\* the whole part of a * b / c, for c > 0, by parts that stay small
MulDiv(a, b, c) == (a \div c) * b + ((a % c) * b) \div c

\* overall_percentage of the stdout branch (101)
OverallStdout(percentage) == AsU8((percentage * 8) \div 10)

\* overall_percentage of the stderr branch (122-123); 0.0 / 0.0 is NaN,
\* NaN.min(80.0) is 80.0
OverallStderr(percentage, total_size) ==
    LET current_size == MulDiv(total_size, percentage, 100)
    IN  IF total_size = 0 THEN 80
        ELSE AsU8(Max(Min(MulDiv(current_size, 80, total_size), 80), 0))

Overall(stream, percentage, total_size) ==
    IF stream = "stdout" THEN OverallStdout(percentage)
    ELSE OverallStderr(percentage, total_size)

\* `percentage > last_percentage`
NotLower(percentage, last_percentage) == percentage >= last_percentage
Higher(percentage, last_percentage) == percentage > last_percentage

NoLine ==
    [stream |-> "none", percentage |-> 0, before |-> 0, waited |-> 0,
     forwarded |-> FALSE]

InitFwd ==
    /\ PipelineOff
    /\ DownloadOff
    /\ UploadOff
    /\ conn = Off
    /\ bar = Off
    /\ peer = Off
    /\ disp = Off
    /\ dlg = Off
    /\ fwd = [pc |-> "loop",
              last_percentage |-> 0,
              since |-> 0,
              sent |-> <<>>,
              line |-> NoLine]

fwdFrame == <<pipeline, download, upload, conn, bar, peer, disp, dlg>>

\* time passes while the loop waits for a line
FwdTime ==
    /\ fwd.pc = "loop"
    /\ fwd.since < FORWARD_INTERVAL_MS
    /\ fwd' = [fwd EXCEPT !.since = fwd.since + FwdStepMs]
    /\ UNCHANGED fwdFrame

\* a line of a stream that parse_progress_line matches; progress_bar.update
\* returns Ok, so the `?` after it does not leave the loop
FwdLine(stream, l) ==
    /\ fwd.pc = "loop"
    /\ Len(fwd.sent) < MaxForwards
    /\ LET parsed == ParseProgressLine(l)
           percentage == parsed.percentage
           forwards == /\ Higher(percentage, fwd.last_percentage)
                       /\ fwd.since >= FORWARD_INTERVAL_MS
       IN  fwd' = [fwd EXCEPT
               !.last_percentage =
                   IF forwards THEN percentage ELSE fwd.last_percentage,
               !.since = IF forwards THEN 0 ELSE fwd.since,
               !.sent = IF forwards
                          THEN Append(fwd.sent,
                                   [stream |-> stream,
                                    percentage |-> percentage,
                                    overall |-> Overall(stream, percentage,
                                                        parsed.total_size)])
                          ELSE fwd.sent,
               !.line = [stream |-> stream,
                         percentage |-> percentage,
                         before |-> fwd.last_percentage,
                         waited |-> fwd.since,
                         forwarded |-> forwards]]
    /\ UNCHANGED fwdFrame

\* the end of stdout, or an error reading it, leaves the loop
FwdStdoutEnd ==
    /\ fwd.pc = "loop"
    /\ fwd' = [fwd EXCEPT !.pc = "wait_with_output"]
    /\ UNCHANGED fwdFrame

NextFwd ==
    \/ FwdTime
    \/ \E stream \in Streams, l \in FwdLines : FwdLine(stream, l)
    \/ FwdStdoutEnd

SpecFwd == InitFwd /\ [][NextFwd]_vars

\* ------------------------------------------------------ resolve_peer
\* peers.rs: one call of resolve_peer.  A chat_id is an i64, written here
\* by its sign and the decimal digits of its magnitude, as format!("{}")
\* prints it; what contacts.resolveUsername answers is an input.

PeerChatIds ==
    {[negative |-> FALSE, digits |-> <<7, 7, 1, 2, 3>>],
     [negative |-> FALSE, digits |-> <<1, 0, 0, 5>>],
     [negative |-> TRUE, digits |-> <<4, 2, 4, 2>>],
     [negative |-> TRUE, digits |-> <<1, 0, 0, 5>>],
     [negative |-> TRUE, digits |-> <<1, 0, 0, 1, 2, 3, 4, 5, 6, 7, 8, 9, 0>>],
     [negative |-> TRUE, digits |-> <<2, 1, 4, 7, 4, 8, 3, 6, 4, 7>>],
     [negative |-> TRUE, digits |-> <<3, 0, 0, 0, 0, 0, 0, 0, 0, 0>>],
     [negative |-> TRUE, digits |-> <<5, 0, 0, 0, 0, 0, 0, 0, 0, 0>>],
     [negative |-> TRUE,
      digits |-> <<9, 2, 2, 3, 3, 7, 2, 0, 3, 6, 8, 5, 4, 7, 7, 5, 8, 0, 8>>]}
PeerUsernames == {"none", "alice"}
\* answers of contacts.resolveUsername: an error, or the peer with the
\* entry of the users or chats list it points to
PeerAnswers ==
    [peer : {"rpc_error", "chat"}, listed : {FALSE}, access_hash : {FALSE}]
        \cup [peer : {"user", "channel"}, listed : BOOLEAN, access_hash : BOOLEAN]
NoAnswer == [peer |-> "none", listed |-> FALSE, access_hash |-> FALSE]
\* the id of what the lookup resolved
RESOLVED_ID == 4711

\* the magnitude of i64::MIN, whose abs() overflows
IsMin(chat_id) ==
    /\ chat_id.negative
    /\ chat_id.digits =
           <<9, 2, 2, 3, 3, 7, 2, 0, 3, 6, 8, 5, 4, 7, 7, 5, 8, 0, 8>>

\* format!("{}", chat_id).starts_with("-100")
StartsWith100(chat_id) ==
    /\ chat_id.negative
    /\ Len(chat_id.digits) >= 3
    /\ SubSeq(chat_id.digits, 1, 3) = <<1, 0, 0>>

\* chat_id < 0 && !format!("{}", chat_id).starts_with("-100")
BasicGroup(chat_id) == chat_id.negative /\ ~StartsWith100(chat_id)

\* the low 32 bits of the number written by the first n digits, as two
\* halves of 16 bits
RECURSIVE Low32(_, _)
Low32(digits, n) ==
    IF n = 0 THEN [hi |-> 0, lo |-> 0]
    ELSE LET prev == Low32(digits, n - 1)
             lo == prev.lo * 10 + digits[n]
             hi == prev.hi * 10 + lo \div 65536
         IN  [hi |-> hi % 65536, lo |-> lo % 65536]

\* chat_id.abs() as i32: the low 32 bits read as a signed number
AbsAsI32(chat_id) ==
    LET bits == Low32(chat_id.digits, Len(chat_id.digits))
    IN  IF bits.hi >= 32768 THEN (bits.hi - 65536) * 65536 + bits.lo
        ELSE bits.hi * 65536 + bits.lo

\* access_hash.ok_or_else(..)?
CredentialAssumed(answer) == TRUE
CredentialPresent(answer) == answer.access_hash

NoResult == [ok |-> FALSE, kind |-> "none", id |-> 0, err |-> "none"]
Failure(text) == [ok |-> FALSE, kind |-> "none", id |-> 0, err |-> text]
InputPeer(kind, id) == [ok |-> TRUE, kind |-> kind, id |-> id, err |-> "none"]

\* lines 26-58: the answer mapped to an InputPeer
MapResolved(answer) ==
    IF answer.peer = "chat" THEN InputPeer("chat", RESOLVED_ID)
    ELSE IF ~answer.listed
      THEN Failure("Failed to map ResolvedPeer to InputPeer")
    ELSE IF ~CredentialPresent(answer)
      THEN Failure(IF answer.peer = "user" THEN "user access_hash missing"
                   ELSE "channel access_hash missing")
    ELSE InputPeer(answer.peer, RESOLVED_ID)

InitPeer ==
    /\ PipelineOff
    /\ DownloadOff
    /\ UploadOff
    /\ conn = Off
    /\ bar = Off
    /\ fwd = Off
    /\ disp = Off
    /\ dlg = Off
    /\ \E chat_id \in PeerChatIds, username \in PeerUsernames :
           peer = [pc |-> "call",
                   chat_id |-> chat_id,
                   username |-> username,
                   locked |-> FALSE,
                   invokes |-> 0,
                   answer |-> NoAnswer,
                   result |-> NoResult]

peerFrame == <<pipeline, download, upload, conn, bar, fwd, disp, dlg>>

\* let actual_client = client.lock().await
PeerLock ==
    /\ peer.pc = "call"
    /\ peer' = [peer EXCEPT !.pc = "locked", !.locked = TRUE]
    /\ UNCHANGED peerFrame

\* 1) the basic group is built from the id; abs() of i64::MIN panics in a
\* build with overflow checks and wraps in one without
PeerBasicGroup(checks) ==
    /\ peer.pc = "locked"
    /\ BasicGroup(peer.chat_id)
    /\ peer' = [peer EXCEPT
           !.pc = "returned",
           !.locked = FALSE,
           !.result = IF checks /\ IsMin(peer.chat_id)
                        THEN Failure("panic: attempt to negate with overflow")
                        ELSE InputPeer("chat", AbsAsI32(peer.chat_id))]
    /\ UNCHANGED peerFrame

\* no username: the last line of the function
PeerNoUsername ==
    /\ peer.pc = "locked"
    /\ ~BasicGroup(peer.chat_id)
    /\ peer.username = "none"
    /\ peer' = [peer EXCEPT
           !.pc = "returned",
           !.locked = FALSE,
           !.result = Failure("Cannot resolve peer as bot without username")]
    /\ UNCHANGED peerFrame

\* 2) contacts.resolveUsername is invoked under the guard; an error
\* returns through `?`
PeerInvoke(answer) ==
    /\ peer.pc = "locked"
    /\ ~BasicGroup(peer.chat_id)
    /\ peer.username # "none"
    /\ peer' = IF answer.peer = "rpc_error"
                 THEN [peer EXCEPT
                          !.pc = "returned",
                          !.locked = FALSE,
                          !.invokes = peer.invokes + 1,
                          !.answer = answer,
                          !.result = Failure("contacts.resolveUsername failed")]
                 ELSE [peer EXCEPT
                          !.pc = "resolved",
                          !.invokes = peer.invokes + 1,
                          !.answer = answer]
    /\ UNCHANGED peerFrame

\* the match over the resolved peer
PeerMap ==
    /\ peer.pc = "resolved"
    /\ peer' = [peer EXCEPT !.pc = "returned",
                           !.locked = FALSE,
                           !.result = MapResolved(peer.answer)]
    /\ UNCHANGED peerFrame

NextPeer ==
    \/ PeerLock
    \/ \E checks \in BOOLEAN : PeerBasicGroup(checks)
    \/ PeerNoUsername
    \/ \E answer \in PeerAnswers : PeerInvoke(answer)
    \/ PeerMap

SpecPeer == InitPeer /\ [][NextPeer]_vars

\* ------------------------------------------- the endpoint of link messages
\* main.rs 506-554: the last branch of the handler tree.  Each delivery of a
\* text message runs the endpoint, which spawns a Task around link_handler.

\* Tasks spawned in one run
MaxSpawns == 3

\* the messages Telegram delivers, possibly more than once each
Deliveries ==
    {[chat |-> 101, id |-> 7, text |-> "https://tiktok.com/v"],
     [chat |-> 101, id |-> 8, text |-> "https://tiktok.com/v"]}

\* 510-514: format!("{}:{}:{}", chat id, message id, text); the two numbers
\* come first, so the three parts can be read back from the key
MessageKey(msg) == <<msg.chat, msg.id, msg.text>>

\* the key removed only after a success
RemovesOnOk(res) == res = "Ok"

\* 538-541: the removal comes before the result is looked at
RemovesKey(res) == TRUE

\* the failure kept silent
NotifiesNever(res) == FALSE

\* 543-547: if let Err(e) = result
Notifies(res) == res = "Err"

NoDelivery == [key |-> <<>>, spawned |-> FALSE, ret |-> "none"]

InitDisp ==
    /\ PipelineOff
    /\ DownloadOff
    /\ UploadOff
    /\ conn = Off
    /\ bar = Off
    /\ fwd = Off
    /\ peer = Off
    /\ dlg = Off
    /\ disp = [pc |-> "on",
               processing |-> {},      \* PROCESSING
               tasks |-> <<>>,         \* the Tasks spawned, in order
               last |-> NoDelivery]    \* the last run of the endpoint

dispFrame == <<pipeline, download, upload, conn, bar, fwd, peer, dlg>>

\* 509-553: the endpoint.  A key already in PROCESSING ends it at once; else
\* the key is inserted and the Task spawned.  It returns Ok in both cases,
\* before the Task has run.
Endpoint(msg) ==
    /\ disp.pc = "on"
    /\ LET message_key == MessageKey(msg)
       IN  IF message_key \in disp.processing
           THEN disp' = [disp EXCEPT !.last = [key |-> message_key,
                                               spawned |-> FALSE,
                                               ret |-> "Ok"]]
           ELSE /\ Len(disp.tasks) < MaxSpawns
                /\ disp' = [disp EXCEPT
                       !.processing = @ \cup {message_key},
                       !.tasks = Append(@, [key |-> message_key,
                                            at |-> "link_handler",
                                            result |-> "none",
                                            logged |-> FALSE,
                                            notice |-> "none"]),
                       !.last = [key |-> message_key, spawned |-> TRUE,
                                 ret |-> "Ok"]]
    /\ UNCHANGED dispFrame

\* 527-535: link_handler returns to the Task
LinkHandlerReturns(i, res) ==
    /\ disp.pc = "on"
    /\ i \in 1..Len(disp.tasks)
    /\ disp.tasks[i].at = "link_handler"
    /\ disp' = [disp EXCEPT !.tasks[i].at = "remove",
                            !.tasks[i].result = res]
    /\ UNCHANGED dispFrame

\* 538-541: the key is removed under the lock
RemoveFromProcessing(i) ==
    /\ disp.pc = "on"
    /\ i \in 1..Len(disp.tasks)
    /\ disp.tasks[i].at = "remove"
    /\ disp' = [disp EXCEPT
           !.processing = IF RemovesKey(disp.tasks[i].result)
                            THEN @ \ {disp.tasks[i].key} ELSE @,
           !.tasks[i].at = "report"]
    /\ UNCHANGED dispFrame

\* 543-548: an Err is logged and the user told; the answer of Telegram to
\* that send is dropped (let _ =).  The Task ends; nothing awaits it.
ReportResult(i, sendOk) ==
    /\ disp.pc = "on"
    /\ i \in 1..Len(disp.tasks)
    /\ disp.tasks[i].at = "report"
    /\ disp.tasks[i].result = "Ok" => sendOk
    /\ disp' = [disp EXCEPT
           !.tasks[i].at = "done",
           !.tasks[i].logged = disp.tasks[i].result = "Err",
           !.tasks[i].notice =
               IF Notifies(disp.tasks[i].result)
                 THEN IF sendOk THEN "sent" ELSE "failed"
                 ELSE "none"]
    /\ UNCHANGED dispFrame

NextDisp ==
    \/ \E msg \in Deliveries : Endpoint(msg)
    \/ \E i \in 1..MaxSpawns, res \in {"Ok", "Err"} :
           LinkHandlerReturns(i, res)
    \/ \E i \in 1..MaxSpawns : RemoveFromProcessing(i)
    \/ \E i \in 1..MaxSpawns, sendOk \in BOOLEAN : ReportResult(i, sendOk)

SpecDisp == InitDisp /\ [][NextDisp]_vars

\* ------------------------------------------------- the broadcast dialogue
\* broadcast.rs and main.rs 254-284.  The dialogue state is kept per chat;
\* updates of one chat are handled one after the other.

DlgChats == {1001, 2002}

\* admin.rs 10-18: the chat ids listed in ADMIN_IDS
ADMIN_IDS == {1001}

IsAdmin(chat_id) == chat_id \in ADMIN_IDS

\* admin_panel.rs 8: the label of the Broadcast button
BTN_BROADCAST == "Broadcast"

\* msg.text() of a message without text
NoText == ""

DlgTexts == {BTN_BROADCAST, "/cancel", "hello", NoText}

CallbackData == {"broadcast_confirm", "broadcast_cancel", "quality_h264"}

\* the rows of table users
BroadcastUsers == {11, 12}

\* the Telegram requests a handler makes with `?`
DlgCalls == {"notice", "cancelled", "preview", "text", "ask", "answer",
             "announce", "report"}

\* 52-58, 105-114, 188-190: dialogue.exit() comes after the Telegram requests
\* of the handler, each with `?`
ExitReached(failed_at) == failed_at = "none"

NoHandling ==
    [kind |-> "none", chat |-> 0, input |-> "", before |-> "Idle",
     handler |-> "none", delivered |-> {}]

InitDlg ==
    /\ PipelineOff
    /\ DownloadOff
    /\ UploadOff
    /\ conn = Off
    /\ bar = Off
    /\ fwd = Off
    /\ peer = Off
    /\ disp = Off
    /\ dlg = [pc |-> "on",
              state |-> [c \in DlgChats |-> "Idle"],  \* BroadcastState
              message |-> [c \in DlgChats |-> ""],    \* its field message
              outbox |-> {},        \* <<user, text>> sent by a broadcast
              last |-> NoHandling]  \* the update handled last

dlgFrame == <<pipeline, download, upload, conn, bar, fwd, peer, disp>>

Handling(kind, chat_id, input, handler, delivered) ==
    [kind |-> kind, chat |-> chat_id, input |-> input,
     before |-> dlg.state[chat_id], handler |-> handler, delivered |-> delivered]

\* start_broadcast (20-43), run for a message with the text BTN_BROADCAST in
\* state Idle (main.rs 261-267)
StartBroadcast(chat_id, failed_at) ==
    /\ dlg.pc = "on"
    /\ dlg.state[chat_id] = "Idle"
    /\ failed_at \in {"none", "notice"}
    /\ dlg' = [dlg EXCEPT
           !.state[chat_id] = IF IsAdmin(chat_id) /\ failed_at = "none"
                             THEN "WaitingForMessage" ELSE @,
           !.last = Handling("message", chat_id, BTN_BROADCAST,
                             "start_broadcast", {})]
    /\ UNCHANGED dlgFrame

\* receive_broadcast_message (45-92), run for every message in state
\* WaitingForMessage (main.rs 257-260)
ReceiveBroadcastMessage(chat_id, text, failed_at) ==
    /\ dlg.pc = "on"
    /\ dlg.state[chat_id] = "WaitingForMessage"
    /\ failed_at \in
           IF text = NoText THEN {"none"}
           ELSE IF text = "/cancel" THEN {"none", "cancelled"}
           ELSE {"none", "preview", "text", "ask"}
    /\ dlg' =
         IF text = NoText
           THEN [dlg EXCEPT !.last = Handling("message", chat_id, text,
                                        "receive_broadcast_message", {})]
         ELSE IF text = "/cancel"
           THEN [dlg EXCEPT
                    !.state[chat_id] = IF ExitReached(failed_at)
                                      THEN "Idle" ELSE @,
                    !.message[chat_id] = IF ExitReached(failed_at) THEN "" ELSE @,
                    !.last = Handling("message", chat_id, text,
                                      "receive_broadcast_message", {})]
         ELSE [dlg EXCEPT
                  !.state[chat_id] = IF failed_at = "none"
                                    THEN "WaitingForConfirmation" ELSE @,
                  !.message[chat_id] = IF failed_at = "none" THEN text ELSE @,
                  !.last = Handling("message", chat_id, text,
                                    "receive_broadcast_message", {})]
    /\ UNCHANGED dlgFrame

\* a message neither branch of the dialogue takes (main.rs 255-268): it goes
\* on to the later branches, which leave the dialogue alone
FallsThrough(chat_id, text) ==
    /\ dlg.pc = "on"
    /\ dlg.state[chat_id] # "WaitingForMessage"
    /\ dlg.state[chat_id] = "Idle" => text # BTN_BROADCAST
    /\ dlg' = [dlg EXCEPT !.last = Handling("message", chat_id, text, "none", {})]
    /\ UNCHANGED dlgFrame

\* the callback endpoint (main.rs 270-284) and handle_broadcast_confirmation
\* (94-194): users is how the query of table users ends (Ok with the rows
\* BroadcastUsers, or Err), received the users whose send succeeded
BroadcastCallback(chat_id, data, failed_at, users, received) ==
    /\ dlg.pc = "on"
    /\ LET taken == /\ data \in {"broadcast_confirm", "broadcast_cancel"}
                    /\ dlg.state[chat_id] = "WaitingForConfirmation"
           confirm == taken /\ data = "broadcast_confirm"
           loops == confirm /\ failed_at \notin {"answer", "announce"}
                            /\ users = "Ok"
           delivered == IF loops THEN received ELSE {}
       IN  /\ failed_at \in
                  IF ~taken THEN {"none"}
                  ELSE IF confirm THEN {"none", "answer", "announce", "report"}
                  ELSE {"none", "answer"}
           /\ users \in {"Ok", "Err"}
           /\ received \in SUBSET BroadcastUsers
           /\ ~loops => users = "Err" /\ received = {}
           /\ dlg' = [dlg EXCEPT
                  !.state[chat_id] = IF taken /\ ExitReached(failed_at)
                                    THEN "Idle" ELSE @,
                  !.message[chat_id] = IF taken /\ ExitReached(failed_at)
                                      THEN "" ELSE @,
                  !.outbox = @ \cup {<<u, dlg.message[chat_id]>> : u \in delivered},
                  !.last = Handling("callback", chat_id, data,
                                    IF taken
                                      THEN "handle_broadcast_confirmation"
                                      ELSE "none",
                                    delivered)]
    /\ UNCHANGED dlgFrame

NextDlg ==
    \/ \E chat_id \in DlgChats, failed_at \in DlgCalls \cup {"none"} :
           StartBroadcast(chat_id, failed_at)
    \/ \E chat_id \in DlgChats, text \in DlgTexts,
          failed_at \in DlgCalls \cup {"none"} :
           ReceiveBroadcastMessage(chat_id, text, failed_at)
    \/ \E chat_id \in DlgChats, text \in DlgTexts : FallsThrough(chat_id, text)
    \/ \E chat_id \in DlgChats, data \in CallbackData,
          failed_at \in DlgCalls \cup {"none"},
          users \in {"Ok", "Err"},
          received \in SUBSET BroadcastUsers :
           BroadcastCallback(chat_id, data, failed_at, users, received)

SpecDlg == InitDlg /\ [][NextDlg]_vars

\* ------------------------------------------------------------------ claims

\* the Task holds the claim of its Dedup Key and has not returned
InFlight(t) ==
    /\ pc[t] # "done"
    /\ Has(events[t], "claim")
    /\ ~Has(events[t], "key_remove")

\* the Tasks that hold an upload permit
Holders ==
    {t \in Tasks : Has(events[t], "permit") /\ ~Has(events[t], "permit_release")}

AllDone == \A t \in Tasks : pc[t] \in {"done", "off"}
OkResults == {"success", "download_failed", "upload_failed", "subscription"}
LogEvents == {"log", "log_failed"}
UploadEnd == {"up_ok", "up_fail"}
Before(seq, i, set) == \E j \in 1..(i - 1) : seq[j] \in set

\* C1: while a Task that claimed link L has not exited, no other Task holds
\* a claim of L and L stays in the in-flight set; a submission of L that
\* reaches the deduplication step meanwhile ends there (rejected), without
\* touching the in-flight set and without going on to the rate limiter.
C1_Duplicate(t) ==
    \E u \in Tasks \ {t} : InFlight(u) /\ link[u] = link[t]
C1_OneTaskPerKey ==
    /\ [](\A t \in Tasks : InFlight(t) =>
            /\ link[t] \in urls
            /\ \A u \in Tasks \ {t} : InFlight(u) => link[u] # link[t])
    /\ [][\A t \in Tasks :
            (pc[t] = "dedup" /\ C1_Duplicate(t) /\ pc'[t] # "dedup") =>
                /\ pc'[t] = "done"
                /\ result'[t] \in {"rejected", "error"}
                /\ events'[t] = <<"reject">>
                /\ urls' = urls]_vars
C1_Witness ==
    \E t, u \in Tasks :
        /\ pc[t] = "done" /\ result[t] = "rejected"
        /\ InFlight(u) /\ link[u] = link[t] /\ chat[u] # chat[t]
        /\ pc[u] = "downloading"

C3_NeverLeaked ==
    \A l \in urls : \E t \in Tasks : InFlight(t) /\ link[t] = l

\* C4: at most UPLOAD_PERMITS (2) Tasks hold a permit, the semaphore counts
\* exactly the permits not held, and while 2 Tasks hold permits a Task that
\* waits for one cannot acquire it.
C4_PermitBound ==
    /\ Cardinality(Holders) <= UPLOAD_PERMITS
    /\ permits = UPLOAD_PERMITS - Cardinality(Holders)
    /\ Cardinality(Holders) = UPLOAD_PERMITS =>
          \A t \in Tasks : pc[t] = "permit_wait" => ~ENABLED AcquirePermit(t)
C4_Witness ==
    /\ Cardinality(Holders) = UPLOAD_PERMITS
    /\ \E t \in Tasks : pc[t] = "permit_wait"

\* C5: a Task holds its permit at every step from the acquisition to the
\* return of link_handler (gate, downloads, uploads, logging, cleanup), has
\* released it exactly once when it has returned, whatever the result, and
\* when all Tasks have finished the semaphore is back at its full size.
C5_HeldSteps ==
    {"gate", "start", "downloading", "downloaded", "upload_mtproto",
     "upload_botapi", "logging", "cleanup", "return"}
C5_PermitHeldThenReleased ==
    /\ \A t \in Tasks : pc[t] \in C5_HeldSteps =>
          Count(events[t], "permit") = 1 /\ ~Has(events[t], "permit_release")
    /\ \A t \in Tasks : pc[t] = "done" =>
          /\ Count(events[t], "permit_release") = Count(events[t], "permit")
          /\ Count(events[t], "permit") <= 1
          /\ result[t] \in OkResults => Count(events[t], "permit") = 1
    /\ AllDone => permits = UPLOAD_PERMITS
C5_Witness ==
    /\ AllDone
    /\ \E t, u \in Tasks :
        /\ result[t] = "error" /\ Has(events[t], "permit_release")
        /\ result[u] = "success"

\* C6 (as stated): if two submissions of one recipient pass deduplication
\* less than 2 s apart, their downloads do not start less than 2 s apart.
C6_DownloadsSpaced ==
    \A c \in Chats : near[c] => ~dlClose[c]

\* C6 (amended): if two submissions of one recipient pass deduplication
\* less than 2 s apart, they leave the rate limiter at least 2 s apart (and
\* only then go on towards the download).
C6_LimiterSpaced ==
    \A c \in Chats : near[c] =>
        /\ minGap[c] >= RATE_LIMIT_SECS
        /\ \A t \in Tasks :
              (chat[t] = c /\ Has(events[t], "dl_start")) =>
                  Has(events[t], "rl_pass")
C6_Witness ==
    \E c \in Chats :
        /\ near[c]
        /\ \E t, u \in Tasks :
            /\ t # u /\ chat[t] = c /\ chat[u] = c
            /\ Has(events[t], "dl_start") /\ Has(events[u], "dl_start")

\* C7: a submission that meets a timestamp of its recipient younger than
\* 2 s sleeps for exactly the rest of the interval, then goes on to the
\* permit (the limiter rejects nothing); leaving the limiter always sets the
\* recipient's timestamp to the current time; consecutive timestamps of a
\* recipient are at least 2 s apart.
C7_RateLimiter ==
    /\ [](/\ \A c \in Chats : minGap[c] >= RATE_LIMIT_SECS
          /\ \A t \in Tasks : pc[t] = "rl_sleep" =>
                sleepLeft[t] = RATE_LIMIT_SECS - lastSend[chat[t]])
    /\ [][\A t \in Tasks :
            (pc[t] \in {"ratelimit", "rl_sleep"}
                /\ pc'[t] \notin {"ratelimit", "rl_sleep"}) =>
                /\ pc'[t] = "permit_wait"
                /\ lastSend'[chat[t]] = 0]_vars
C7_Witness ==
    \E t \in Tasks :
        /\ Has(events[t], "rl_wait")
        /\ pc[t] = "permit_wait"
        /\ lastSend[chat[t]] = 0

\* C8: the transport is decided by the size of the file alone: more than
\* 48 MiB goes to the persistent (MTProto) transport, 48 MiB or less to the
\* direct (Bot API) transport, and a Task uses one transport only.
C8_TransportBySize ==
    \A t \in Tasks :
        /\ pc[t] = "upload_mtproto" => Has(events[t], "persistent")
        /\ pc[t] = "upload_botapi" => Has(events[t], "direct")
        /\ Has(events[t], "persistent") =>
              fileSize[t] > 48 * 1024 * 1024 /\ ~Has(events[t], "direct")
        /\ Has(events[t], "direct") =>
              fileSize[t] <= 48 * 1024 * 1024 /\ ~Has(events[t], "persistent")
C8_Witness ==
    \E t, u \in Tasks :
        /\ pc[t] = "upload_mtproto" /\ fileSize[t] = 48 * 1024 * 1024 + 1
        /\ pc[u] = "upload_botapi" /\ fileSize[u] = 48 * 1024 * 1024

\* C9: when a Task that passed deduplication has terminated, its progress
\* message has been deleted and the file of its download has been removed.
C9_CleanedAtExit ==
    \A t \in Tasks :
        (pc[t] = "done" /\ Has(events[t], "claim")) =>
            msgId[t] = "none" /\ file[t] # "present"

\* C10 (as stated), for a Task whose download succeeded: the delivery
\* record is not written before the upload attempt has ended, and no cleanup
\* action (permit release, key removal, progress-message deletion, file
\* removal) comes before the logging step.
C10_Cleanup == {"permit_release", "key_remove", "msg_delete", "file_remove"}
C11_Terminal == {"success", "download_failed", "upload_failed"}
C11_LoggedOnEveryOutcome ==
    \A t \in Tasks :
        (pc[t] = "done" /\ result[t] \in C11_Terminal) =>
            Count(events[t], "log") + Count(events[t], "log_failed") = 1

\* C12: a Task whose logging database call failed still removes its Dedup
\* Key, releases its permit and returns Ok: the step after the failed call
\* is the key removal, and once the Task has returned it has removed the
\* key once, released the permit once and its result is not an error.
C12_LogFailureOnlyReported ==
    /\ [](\A t \in Tasks :
            (pc[t] = "done" /\ Has(events[t], "log_failed")) =>
                /\ Count(events[t], "key_remove") = 1
                /\ Count(events[t], "permit_release") = 1
                /\ result[t] \in {"success", "upload_failed"})
    /\ [][\A t \in Tasks :
            (pc[t] = "logging" /\ pc'[t] # "logging") =>
                pc'[t] = "cleanup" /\ result'[t] = result[t]]_vars
C12_Witness ==
    \E t \in Tasks :
        /\ pc[t] = "done" /\ Has(events[t], "log_failed")
        /\ Has(events[t], "key_remove") /\ Has(events[t], "permit_release")
        /\ result[t] = "success"

\* the finished attempts that failed
DlFailures == {i \in 1..Len(dlHistory) : dlHistory[i] # "ok"}

\* C13: when every download attempt ended with the process exiting with a
\* failure status after writing "Private video" to its stderr, the message
\* sent to the user is the one of the private category.
C13_PrivateMessage ==
    (/\ dlPc = "reported"
     /\ dlStderr = "Private video"
     /\ \A i \in 1..Len(dlHistory) : dlHistory[i] = "exit_fail") =>
        dlNotice = "private"

\* C14: at most 3 download attempts are started; an attempt that timed out
\* and one that returned an error add to the same counter; the pauses slept
\* are 1000 ms after the first failure and 2000 ms after the second; the
\* third failure is followed by no pause and no attempt, only by the report.
C14_DownloadRetries ==
    /\ dlAttempts <= 3
    /\ dlRetries = Cardinality(DlFailures)
    /\ Len(dlPauses) = Min(dlRetries, 2)
    /\ \A k \in 1..Len(dlPauses) :
          dlPauses[k] = Min(1000 * 2^(k - 1), 30000) /\ dlPauses[k] = k * 1000
    /\ dlPc = "backoff" => dlRetries < 3
    /\ dlRetries >= 3 =>
          dlPc \in {"report", "reported"} /\ dlRetries = 3 /\ dlAttempts = 3
C14_Witness ==
    /\ dlPc = "reported"
    /\ dlHistory = <<"timeout", "exit_fail", "timeout">>
    /\ dlPauses = <<1000, 2000>>

\* C16: when the first download attempt fails with a text of the content
\* class (sign-in required, unavailable, private, age-restricted, malformed
\* response), no second attempt is started.
C16_ContentClass == DlStderrLines \ {"HTTP Error 500"}
C16_ContentNotRetried ==
    (/\ Len(dlHistory) >= 1
     /\ dlHistory[1] = "exit_fail"
     /\ dlStderr \in C16_ContentClass) =>
        dlAttempts = 1

\* the upload has ended
UpEnded == upPc \in {"returned", "finished"}
\* the invocations of the operation that failed
UpFailures == {i \in 1..Len(upHistory) : upHistory[i] # UpOk}

\* C15: with either transport, the upload is attempted at most 3 times and
\* whenever an attempt is about to start, every failed attempt before it was
\* followed by a pause: 1000 ms after the first, 2000 ms after the second.
C15_UploadRetries ==
    /\ Len(upHistory) <= 3
    /\ upPc = "invoke" =>
          /\ Len(upPauses) = Cardinality(UpFailures)
          /\ \A k \in 1..Len(upPauses) : upPauses[k] = k * 1000

\* C17: in with_reconnect_retry, the operation is invoked at most 3 times;
\* every attempt that failed with "read 0 bytes" is followed by a
\* reconnection, and, unless it was the third attempt, by another
\* invocation of the operation; when the last invocation succeeded the
\* wrapper returns Ok.
C17_ReadZeroReconnects ==
    upTransport = "persistent" =>
        /\ Len(upHistory) <= 3
        /\ \A i \in 1..Len(upHistory) :
              upHistory[i] = <<"read 0 bytes">> =>
                /\ \/ Len(reconnects) >= i
                   \/ upPc = "reconnect" /\ Len(reconnects) = i - 1
                /\ (i < 3 /\ Len(reconnects) >= i) =>
                      (Len(upHistory) > i \/ upPc \in {"sleep", "invoke"})
        /\ (UpEnded /\ upHistory # <<>> /\ upHistory[Len(upHistory)] = UpOk) =>
              upErr = <<>>
C17_Witness ==
    /\ upTransport = "persistent"
    /\ upPc = "finished"
    /\ upHistory = << <<"read 0 bytes">>, UpOk >>
    /\ reconnects = <<TRUE>>
    /\ upErr = <<>>
    /\ upNotice = "none"

\* C18: in with_reconnect_retry, an attempt that failed with an error
\* holding none of "read 0 bytes", "ConnectionReset", "Connection lost" is
\* the last one: the wrapper has returned this very error, no reconnection
\* was run for it and the connection slot was replaced only by the
\* successful reconnections of earlier attempts.
C18_Other(text) ==
    text \notin {UpOk, <<"read 0 bytes">>, <<"ConnectionReset">>, <<"Connection lost">>}
C18_OtherErrorSurfaced ==
    (upTransport = "persistent" /\ upHistory # <<>>
        /\ C18_Other(upHistory[Len(upHistory)])) =>
        /\ UpEnded
        /\ upErr = upHistory[Len(upHistory)]
        /\ Len(reconnects) = Len(upHistory) - 1
        /\ client = Cardinality({k \in 1..Len(reconnects) : reconnects[k]})
C18_Witness ==
    /\ upTransport = "persistent"
    /\ upPc = "finished"
    /\ upHistory = << <<"Connection lost">>, <<"FILE_PARTS_INVALID">> >>
    /\ reconnects = <<TRUE>>
    /\ upErr = <<"FILE_PARTS_INVALID">>

\* C19: with_reconnect_retry invokes the operation at most 3 times, and
\* when all 3 invocations failed with a disconnect-class error it returns
\* the error "Operation failed after retries".
C19_GenericAfterRetries ==
    upTransport = "persistent" =>
        /\ Len(upHistory) <= 3
        /\ (/\ UpEnded
            /\ Len(upHistory) = 3
            /\ \A i \in 1..3 : upHistory[i] \in
                  {<<"read 0 bytes">>, <<"ConnectionReset">>, <<"Connection lost">>}) =>
              upErr = <<"Operation failed after retries">>

\* C20: an upload attempt that failed with FLOOD_WAIT_<n> is followed,
\* unless it was the third, by a sleep of min(n, 30) seconds and by another
\* attempt, and the flood-control failure is reported to the user only when
\* it was the third attempt's.
C20_FloodWaitRetried ==
    upPc = "finished" =>
        \A i \in 1..Len(upHistory) :
            LET n == ExtractFloodWait(upHistory[i]) IN
            n > 0 =>
                /\ i < 3 =>
                      /\ Len(upHistory) > i
                      /\ Len(upPauses) >= i
                      /\ upPauses[i] = Min(n, 30) * 1000
                /\ (upNotice # "none" /\ upErr = upHistory[i]) => i = 3

\* C21: the client is kept in one slot and every use of it - a peer
\* lookup, a keep-alive ping, the replacement in reconnect_client - is made
\* by the task that holds the guard of the slot, so no two tasks use the
\* client at the same time; a task that uses the client uses the one that
\* is in the slot, also after a reconnection replaced it.
C21_SlotGuarded ==
    conn.pc = "on" =>
        /\ \A t \in ConnTasks :
              conn.using[t] # NoClient =>
                  conn.holder = t /\ conn.using[t] = conn.slot
        /\ Cardinality({t \in ConnTasks : conn.using[t] # NoClient}) <= 1
\* an upload uses a client put into the slot by a reconnection while the
\* keep-alive task waits for the guard with another client ready
C21_Witness ==
    /\ conn.pc = "on"
    /\ conn.slot # 0
    /\ conn.holder = "upload1"
    /\ conn.using["upload1"] = conn.slot
    /\ conn.at[KeepAlive] = "replace"
    /\ conn.at["upload2"] = "lock"

\* C22: the keep-alive task pings when a tick of its 5 minute interval
\* fires, runs reconnect_client when the ping failed, and goes back to
\* waiting for the next tick whether the reconnection succeeded or
\* failed: it never stops, and it pings again and again.
C22_KeepAliveNeverStops ==
    /\ [](conn.at[KeepAlive] \in {"tick", "lock", "invoke", "connect", "replace"})
    /\ [][/\ (conn.at[KeepAlive] = "invoke" /\ conn'.at[KeepAlive] # "invoke")
              => conn'.at[KeepAlive] =
                     (IF conn'.ping = "failed" THEN "connect" ELSE "tick")
          /\ (conn.at[KeepAlive] \in {"connect", "replace"}
              /\ conn'.at[KeepAlive] \notin {"connect", "replace"})
              => conn'.at[KeepAlive] = "tick"
          /\ (conn.at[KeepAlive] # "lock" /\ conn'.at[KeepAlive] = "lock")
              => /\ conn.at[KeepAlive] = "tick"
                 /\ conn.due <= 0
                 /\ conn'.due = conn.due + KEEPALIVE_MINUTES]_vars
    /\ [](conn.at[KeepAlive] = "connect" => <>(conn.at[KeepAlive] = "invoke"))
\* the keep-alive task waits for its next tick after a failed ping whose
\* reconnection failed too
C22_Witness ==
    /\ conn.pc = "on"
    /\ conn.ping = "failed"
    /\ conn.at[KeepAlive] = "tick"
    /\ conn.slot = 0
    /\ conn.due > 0

\* the percentages of the calls of the traced run, and those rendered
Called == [i \in 1..Len(bar.calls) |-> bar.calls[i].percentage]
IsRendered(c) == c.rendered
Shown ==
    LET r == SelectSeq(bar.calls, IsRendered)
    IN  [i \in 1..Len(r) |-> r[i].percentage]
C23_Run ==
    /\ bar.pc = "on"
    /\ bar.traced
    /\ Called = <<10, 12, 14, 20, 100>>

\* C23 as stated: after start, updates 10, 12, 14, 20, 100, each arriving
\* when the 3 seconds have passed, render 20 and 100 only.
C23_TwentyAndHundredOnly == C23_Run => Shown = <<20, 100>>
\* C23: after start (last rendered percentage 0), updates 10, 12, 14, 20,
\* 100, each arriving when the 3 seconds have passed, render 10, 20 and
\* 100; 12 and 14 are suppressed.
C23_TenTwentyHundred == C23_Run => Shown = <<10, 20, 100>>
\* the five updates were made and the last one was rendered
C23_Witness == C23_Run /\ bar.last.percentage = 100 /\ bar.last.rendered

MessageInvalidated ==
    bar.last.edit \in {"MESSAGE_ID_INVALID", "message to edit not found",
                       "message can't be edited"}

\* C25: when the edit of a rendered update fails because the message was
\* invalidated, update clears the handle, sends a replacement exactly if
\* the percentage is below 100, stores the handle of the replacement that
\* was sent, and returns Ok.
C25_InvalidatedHandle ==
    (bar.pc = "on" /\ MessageInvalidated) =>
        /\ bar.last.ret = "Ok"
        /\ bar.last.rendered
        /\ bar.last.sent # "none" <=> bar.last.percentage < 100
        /\ bar.last.after # bar.last.handle
        /\ bar.last.after # NoMessage <=> bar.last.sent = "ok"
\* an invalidated edit below 100 replaced the message, and the handle of
\* the replacement is the one kept
C25_Witness ==
    /\ bar.pc = "on"
    /\ bar.last.edit = "message to edit not found"
    /\ bar.last.percentage < 100
    /\ bar.last.sent = "ok"
    /\ bar.message_id = bar.last.after
    /\ bar.message_id # NoMessage

\* C26: a line is forwarded only if its percentage is above the last
\* forwarded one and 500 ms have passed since the last forwarded update;
\* the forwarded percentages rise strictly, whichever stream they come
\* from; a line that is not forwarded leaves last_percentage and
\* last_update_time as they were.
C26_ForwardedRising ==
    /\ [](fwd.pc # "off" =>
            /\ fwd.line.forwarded =>
                  /\ fwd.line.percentage > fwd.line.before
                  /\ fwd.line.waited >= FORWARD_INTERVAL_MS
            /\ \A i \in 1..Len(fwd.sent) : \A j \in 1..Len(fwd.sent) :
                  i < j => fwd.sent[i].percentage < fwd.sent[j].percentage)
    /\ [][(fwd.pc = "loop" /\ fwd'.sent = fwd.sent) =>
             \/ fwd'.last_percentage = fwd.last_percentage
                    /\ fwd'.since = fwd.since
             \/ fwd'.line = fwd.line]_vars
\* a line of stderr was forwarded after one of stdout, and a later line of
\* stdout with a percentage in between was not
C26_Witness ==
    /\ fwd.pc = "loop"
    /\ Len(fwd.sent) = 2
    /\ fwd.sent[1].stream = "stdout"
    /\ fwd.sent[2].stream = "stderr"
    /\ fwd.line.stream = "stdout"
    /\ ~fwd.line.forwarded
    /\ fwd.line.waited >= FORWARD_INTERVAL_MS
    /\ fwd.line.percentage > fwd.sent[1].percentage

\* C27: every forwarded overall value lies in 0..80, whatever percentage
\* the line matched on either stream, and is the whole part of 0.8 times
\* the percentage when that is within 0..100.
C27_InBand ==
    fwd.pc # "off" =>
        \A i \in 1..Len(fwd.sent) :
            /\ fwd.sent[i].overall \in 0..80
            /\ fwd.sent[i].percentage <= 100 =>
                   fwd.sent[i].overall = (fwd.sent[i].percentage * 8) \div 10

\* C28: a download that ends with the process exiting successfully and no
\* file found fails with 'Downloaded file not found'; one that ends with
\* the process exiting with a failure status fails with an error that
\* carries what the process wrote to its stderr; neither yields a file.
C28_FailureTexts ==
    (dlPc \in {"report", "reported"} /\ dlHistory # <<>>) =>
        LET how == dlHistory[Len(dlHistory)]
        IN  /\ how # "ok"
            /\ how = "not_found" => dlErr = <<"Downloaded file not found">>
            /\ how = "exit_fail" => Contains(dlErr, dlStderr)

\* the decimal digits of a natural number
RECURSIVE Digits(_)
Digits(n) == IF n < 10 THEN <<n>> ELSE Append(Digits(n \div 10), n % 10)

\* C29: for every chat_id that is negative and not of the form -100...,
\* resolve_peer returns the InputPeerChat whose chat_id is the magnitude of
\* the id, without a lookup, with or without a username, also when the
\* magnitude does not fit in 32 bits.
C29_GroupByMagnitude ==
    (peer.pc = "returned" /\ BasicGroup(peer.chat_id)) =>
        /\ peer.result.ok
        /\ peer.result.kind = "chat"
        /\ peer.result.id >= 0
        /\ Digits(peer.result.id) = peer.chat_id.digits
        /\ peer.invokes = 0

\* C30: for a chat_id that is not of the basic group shape, resolve_peer
\* fails without a lookup when there is no username, and fails when the
\* lookup fails, when the user or channel has no access_hash, or when the
\* resolved entity is not in the answer; a failure returns no InputPeer,
\* and there is at most one lookup.
C30_FailuresFinal ==
    (peer.pc = "returned" /\ ~BasicGroup(peer.chat_id)) =>
        /\ peer.username = "none" => ~peer.result.ok /\ peer.invokes = 0
        /\ peer.answer.peer = "rpc_error" => ~peer.result.ok
        /\ (peer.answer.peer \in {"user", "channel"}
            /\ ~(peer.answer.listed /\ peer.answer.access_hash))
               => ~peer.result.ok
        /\ ~peer.result.ok => peer.result.kind = "none"
        /\ peer.invokes <= 1
        /\ ~peer.locked
\* the lookup for a channel id found the channel without its access_hash
C30_Witness ==
    /\ peer.pc = "returned"
    /\ StartsWith100(peer.chat_id)
    /\ peer.username = "alice"
    /\ peer.answer = [peer |-> "channel", listed |-> TRUE, access_hash |-> FALSE]
    /\ peer.result.err = "channel access_hash missing"
    /\ peer.invokes = 1

\* C32: when all three download attempts ended by the 5 minute timeout,
\* the message sent to the user is the download-timeout one, not the
\* generic one.
C32_TimeoutMessage ==
    (/\ dlPc = "reported"
     /\ Len(dlHistory) = 3
     /\ \A i \in 1..Len(dlHistory) : dlHistory[i] = "timeout") =>
        dlNotice = "timeout"

\* C33: while a Task of one recipient sleeps in the rate limiter, a Task
\* of another recipient that has nothing to wait for (no timestamp, or one
\* at least 2 s old) can pass the limiter: it does not wait for the sleep
\* of the first to end.
C33_OtherRecipientPasses ==
    \A t \in Tasks : \A u \in Tasks :
        (/\ pc[t] = "rl_sleep"
         /\ sleepLeft[t] > 0
         /\ pc[u] = "ratelimit"
         /\ chat[u] # chat[t]
         /\ chat[u] \in DOMAIN lastSend => ~MustWait(lastSend[chat[u]]))
            => ENABLED RateLimit(u)

\* the place of a phrase in the order of the rules, and the message of a
\* place
RuleOf(phrase) ==
    CASE phrase = "Sign in required" -> 1
      [] phrase \in {"Video unavailable", "Requested format is not available"} -> 2
      [] phrase = "Private video" -> 3
      [] phrase = "This video is age-restricted" -> 4
      [] phrase \in {"Failed to parse", "JSON"} -> 5
      [] phrase = "timeout" -> 6
      [] OTHER -> 7
MessageOf(rule) ==
    CASE rule = 1 -> "sign_in"
      [] rule = 2 -> "unavailable"
      [] rule = 3 -> "private"
      [] rule = 4 -> "age_restricted"
      [] rule = 5 -> "api_response"
      [] rule = 6 -> "timeout"
      [] OTHER -> "generic"
EarliestRule(text) ==
    IF text = <<>> THEN 7
    ELSE CHOOSE r \in 1..7 :
            /\ \E i \in 1..Len(text) : RuleOf(text[i]) = r
            /\ \A i \in 1..Len(text) : RuleOf(text[i]) >= r

\* C34: the message of a failed download is the one of the first rule, in
\* the order sign-in, unavailable, private, age-restricted, malformed
\* response, timeout, generic, that a phrase of the failure text matches;
\* one message is chosen, and a text matching several rules gets the
\* message of the earliest.
C34_FirstRuleWins ==
    dlPc = "reported" => dlNotice = MessageOf(EarliestRule(dlErr))
\* a text with the private and the sign-in phrase, in this order, was
\* reported as sign-in
C34_Witness ==
    /\ dlPc = "reported"
    /\ dlErr = <<"Private video", "Sign in required">>
    /\ dlNotice = "sign_in"

\* C35: a reconnect_client that fails at any of its steps leaves the slot
\* holding the client it held; the slot changes only by the replacement at
\* the end, to a client that is connected, authorized and whose session is
\* saved.
C35_SlotKeptOnFailure ==
    /\ [](conn.pc = "on" =>
            \A t \in ConnTasks :
                /\ conn.fresh[t] # NoClient <=> conn.at[t] = "replace"
                /\ conn.at[t] = "replace" => conn.ready[t])
    /\ [][conn.pc = "on" =>
            /\ \A t \in ConnTasks :
                  (conn.at[t] = "connect"
                      /\ conn'.at[t] \notin {"connect", "replace"}) =>
                      /\ conn'.slot = conn.slot
                      /\ conn'.failed \in ReconnectSteps
            /\ conn'.slot # conn.slot =>
                  \E t \in ConnTasks :
                      /\ conn.at[t] = "replace"
                      /\ conn.ready[t]
                      /\ conn'.slot = conn.fresh[t]]_vars
\* after a replacement by the keep-alive task, a reconnection of an
\* upload failed when saving the session and the slot holds the client of
\* the keep-alive task
C35_Witness ==
    /\ conn.pc = "on"
    /\ conn.failed = "save_to_file"
    /\ conn.slot = 1
    /\ conn.at["upload1"] = "idle"
    /\ conn.at[KeepAlive] = "tick"
    /\ conn.ping = "failed"

\* C36: an update() that the throttle suppresses (a time is noted, the call
\* is not a completion, and either the interval has not passed or the
\* percentage is less than MIN_CHANGE above the remembered one) changes
\* nothing: the remembered percentage, the time since the last rendered update
\* and the message handle are as before, and nothing is edited or sent. The
\* remembered percentage is therefore the last rendered one.
Throttled(percentage) ==
    /\ bar.since >= 0
    /\ percentage # 100
    /\ \/ bar.since < MIN_UPDATE_INTERVAL
       \/ SaturatingSub(percentage, bar.last_percentage) < MIN_CHANGE

C36_SuppressedChangesNothing ==
    [][\A percentage \in Percents, editErr \in EditErrors \cup {"ok"},
          sendOk \in BOOLEAN :
          BarUpdate(percentage, editErr, sendOk) /\ Throttled(percentage)
              => /\ bar'.last_percentage = bar.last_percentage
                 /\ bar'.since = bar.since
                 /\ bar'.message_id = bar.message_id
                 /\ bar'.last.edit = "none"
                 /\ bar'.last.sent = "none"]_vars

\* the interval had passed and a higher percentage was asked for, yet the
\* call was suppressed and the remembered percentage is the older one
C36_Witness ==
    /\ bar.pc = "on"
    /\ bar.last # NoCall
    /\ ~bar.last.rendered
    /\ bar.last.time_passed
    /\ bar.last.percentage > bar.last.before
    /\ bar.last_percentage = bar.last.before
    /\ bar.message_id # NoMessage

\* C37: the reporter holds one handle or none. After a delete() the handle is
\* empty whatever Telegram answered to the deletion, and a delete() with no
\* handle asks nothing of Telegram; an update() that passes the throttle with
\* no handle sends a new status message and, when the send succeeds, holds
\* its handle.
C37_DeleteClears ==
    /\ [](bar.pc = "on" =>
            /\ bar.del \in {"ok", "failed", "skipped"}
                   => bar.message_id = NoMessage
            /\ bar.last # NoCall /\ bar.last.rendered
                   /\ bar.last.handle = NoMessage
                   => /\ bar.last.edit = "none"
                      /\ bar.last.sent \in {"ok", "failed"}
                      /\ bar.last.sent = "ok" <=> bar.last.after # NoMessage)
    /\ [][\A deleteOk \in BOOLEAN :
              BarDelete(deleteOk)
                  => (bar'.del = "skipped" <=> bar.message_id = NoMessage)]_vars

\* the message of start was deleted, Telegram refusing or not, and a second
\* delete() found no handle
C37_Witness ==
    /\ bar.pc = "on"
    /\ bar.started
    /\ bar.last = NoCall
    /\ bar.del = "skipped"
    /\ bar.message_id = NoMessage

\* C38: a Task the subscription gate turned away (the setting is true or
\* unreadable, the recipient is no admin, the subscription check failed or
\* errored) has, when link_handler returns, removed its Dedup Key, started no
\* download and created no progress message.
C38_TurnedAwayCleansUp ==
    \A t \in Tasks :
        (pc[t] = "return" /\ Has(events[t], "gate_exit")) =>
            /\ Has(events[t], "key_remove")
            /\ ~Has(events[t], "dl_start")
            /\ ~Has(events[t], "msg_start")
            /\ msgId[t] = "none"

\* C31: every Task whose link_handler returned an error ends with the error
\* logged and the failure message sent to the recipient (the send is made;
\* its own failure is dropped), the endpoint that spawned it returned Ok, and
\* the endpoint keeps accepting deliveries afterwards.
C31_ErrorsCaught ==
    disp.pc = "on" =>
        /\ disp.last # NoDelivery => disp.last.ret = "Ok"
        /\ \A i \in 1..Len(disp.tasks) :
               (disp.tasks[i].at = "done" /\ disp.tasks[i].result = "Err") =>
                   /\ disp.tasks[i].logged
                   /\ disp.tasks[i].notice \in {"sent", "failed"}
                   /\ \A msg \in Deliveries :
                          (MessageKey(msg) \in disp.processing
                               \/ Len(disp.tasks) < MaxSpawns)
                              => ENABLED Endpoint(msg)

\* a Task ended with an error and the notice, and a later delivery was
\* accepted and its Task is running
C31_Witness ==
    /\ disp.pc = "on"
    /\ \E i, j \in 1..Len(disp.tasks) :
           /\ i < j
           /\ disp.tasks[i].at = "done"
           /\ disp.tasks[i].result = "Err"
           /\ disp.tasks[i].notice = "sent"
           /\ disp.tasks[j].at = "link_handler"
           /\ disp.last.key = disp.tasks[j].key
           /\ disp.last.spawned

\* C39: a key is in PROCESSING exactly while one Task spawned for it has not
\* yet removed it (link_handler running, or returned and at the removal);
\* the delivery of a message whose key is present spawns nothing and changes
\* nothing; the key is removed after link_handler returned, with Ok or Err.
Holding(i) == disp.tasks[i].at \in {"link_handler", "remove"}

C39_KeyWhileRunning ==
    /\ [](disp.pc = "on" =>
            /\ \A i \in 1..Len(disp.tasks) :
                   Holding(i) <=> disp.tasks[i].key \in disp.processing
                                     /\ \A j \in (i + 1)..Len(disp.tasks) :
                                            disp.tasks[j].key # disp.tasks[i].key
            /\ \A k \in disp.processing :
                   \E i \in 1..Len(disp.tasks) :
                       disp.tasks[i].key = k /\ Holding(i)
            /\ \A i, j \in 1..Len(disp.tasks) :
                   (i # j /\ Holding(i) /\ Holding(j))
                       => disp.tasks[i].key # disp.tasks[j].key)
    /\ [][\A msg \in Deliveries :
              (Endpoint(msg) /\ MessageKey(msg) \in disp.processing)
                  => /\ disp'.tasks = disp.tasks
                     /\ disp'.processing = disp.processing
                     /\ ~disp'.last.spawned]_vars

\* a second delivery was skipped while the Task of the first was running,
\* after an earlier Task of the same message had failed and freed the key
C39_Witness ==
    /\ disp.pc = "on"
    /\ disp.last # NoDelivery
    /\ ~disp.last.spawned
    /\ \E i, j \in 1..Len(disp.tasks) :
           /\ i < j
           /\ disp.tasks[i].key = disp.last.key
           /\ disp.tasks[j].key = disp.last.key
           /\ disp.tasks[i].at = "done"
           /\ disp.tasks[i].result = "Err"
           /\ disp.tasks[j].at = "link_handler"

\* C40: (1) a broadcast text reaches users only in the handling of
\* 'broadcast_confirm' in state WaitingForConfirmation; (2) that state is
\* entered only from WaitingForMessage on a text other than '/cancel', and
\* WaitingForMessage only from Idle by an admin's Broadcast message;
\* (3) '/cancel' in WaitingForMessage and 'broadcast_cancel' in
\* WaitingForConfirmation return the dialogue to Idle and deliver nothing;
\* (4) the Broadcast message of a non-admin leaves the state Idle.
DlgFailures == DlgCalls \cup {"none"}

C40_SentOnlyOnConfirm ==
    [][dlg.pc = "on" /\ dlg'.outbox # dlg.outbox
          => /\ dlg'.last.kind = "callback"
             /\ dlg'.last.input = "broadcast_confirm"
             /\ dlg'.last.before = "WaitingForConfirmation"
             /\ dlg.state[dlg'.last.chat] = "WaitingForConfirmation"]_vars

C40_OnlyPath ==
    [][dlg.pc = "on" =>
         \A c \in DlgChats :
           /\ (dlg'.state[c] = "WaitingForConfirmation"
                 /\ dlg.state[c] # "WaitingForConfirmation")
                => /\ dlg.state[c] = "WaitingForMessage"
                   /\ dlg'.last.kind = "message"
                   /\ dlg'.last.chat = c
                   /\ dlg'.last.input \notin {"/cancel", NoText}
                   /\ dlg'.message[c] = dlg'.last.input
           /\ (dlg'.state[c] = "WaitingForMessage"
                 /\ dlg.state[c] # "WaitingForMessage")
                => /\ dlg.state[c] = "Idle"
                   /\ IsAdmin(c)
                   /\ dlg'.last.kind = "message"
                   /\ dlg'.last.chat = c
                   /\ dlg'.last.input = BTN_BROADCAST]_vars

C40_CancelReturnsToIdle ==
    [][\A c \in DlgChats, f \in DlgFailures :
         /\ ReceiveBroadcastMessage(c, "/cancel", f)
              => dlg'.state[c] = "Idle" /\ dlg'.outbox = dlg.outbox
         /\ (dlg.pc = "on" /\ dlg.state[c] = "WaitingForConfirmation"
               /\ BroadcastCallback(c, "broadcast_cancel", f, "Err", {}))
              => dlg'.state[c] = "Idle" /\ dlg'.outbox = dlg.outbox]_vars

C40_NonAdminStaysIdle ==
    [][\A c \in DlgChats, f \in DlgFailures :
         (StartBroadcast(c, f) /\ ~IsAdmin(c)) => dlg'.state[c] = "Idle"]_vars

C40_Broadcast ==
    /\ C40_SentOnlyOnConfirm
    /\ C40_OnlyPath
    /\ C40_CancelReturnsToIdle
    /\ C40_NonAdminStaysIdle

====
